---- MODULE Spec2Model ----
(***************************************************************************)
(* Process host of web-process-host (process_host.ts): the process table,  *)
(* the name registry and the pending wait resolvers, driven by the host's  *)
(* own operations (the object processHost returns) and by the calls every  *)
(* process reaches through the API server buildAPI installs on its port.   *)
(***************************************************************************)
EXTENDS Integers, Sequences, FiniteSets, TLC

\* ---------------------------------------------------------------- bounds
MaxPid == 3        \* start is cut off once idCounter reaches MaxPid
MaxOptions == 1    \* longest options list handed to name() and find()
MaxWaits == 0      \* at most MaxWaits promises are created by wait()
MaxNamed == 2      \* SpecNames cuts start off once idCounter reaches MaxNamed
MaxWaiters == 2    \* SpecWaits: at most MaxWaiters promises are created by wait()
MaxCalls == 1      \* SpecIpc: at most MaxCalls ipc/asyncIpc/getOneMessage calls
MaxSent == 1       \* SpecIpc: the host's own send stops at MaxSent frames in flight
MaxAsync == 2      \* SpecAsync: at most MaxAsync sub-channel calls are made
MaxServed == 2     \* SpecServe: at most MaxServed calls are made
MaxTorn == 2       \* SpecCancel: at most MaxTorn calls, and MaxTorn kept sub-channels
MaxHostWaits == 1  \* SpecHost: at most MaxHostWaits promises are created by wait()
MaxClients == 2    \* SpecProps: at most MaxClients getClient calls are made
MaxWrites == 1     \* SpecProps: the server assigns its properties MaxWrites times
MaxPosts == 1      \* SpecTrackers: at most MaxPosts frames are posted by trackers
MaxAssigns == 2    \* SpecConverge: the server assigns its properties MaxAssigns times
MaxSetCalls == 2   \* SpecSetter: at most MaxSetCalls calls of a setter are made
MaxTransfers == 2  \* SpecTransfer: at most MaxTransfers requests with a list
MaxModes == 2      \* SpecModes: at most MaxModes sub-channels made, and calls
MaxLate == 2       \* SpecLate: at most MaxLate calls of wait
MaxHolders == 1    \* SpecTrackers, SpecConverge: at most MaxHolders getClient calls

\* ---------------------------------------------------------------- values
\* JavaScript's undefined where a PID is expected (an omitted argument, an
\* absent parent, a promise that is still pending).  PIDs start at 1.
Undef == 0
\* proc.name of a row that was never named (the optional field is absent).
NoName == "<undefined>"
\* The strings peers pass as names; "" is the one falsy string.
Names == {"", "a", "b"}

\* A JavaScript value that crosses a port is kept as a tuple of strings, its
\* type first: undefined, a number, a string, an Error, an array of strings.
Undefined == <<"undefined">>
Num(n) == <<"number", ToString(n)>>
Str(x) == <<"string", x>>
Err(msg) == <<"Error", msg>>
Arr(list) == <<"array">> \o list

Pids == 1..MaxPid
PidArgs == Pids \cup {Undef}

\* `if (proc.name)`, `parent ? ... : ...`: truthiness of a string / a PID.
TruthyName(n) == n /= NoName /\ n /= ""
TruthyPid(p) == p /= Undef

VARIABLES
    table,          \* Map<number, Process>: live PID -> row
    idCounter,      \* last value handed out by getPID
    names,          \* Map<string, number>
    nameCallbacks,  \* Map<string, resolver[]>, a resolver is a promise index
    promises,       \* promises created by wait(): Undef (pending) or the PID
    last,           \* the last call: who made it, its arguments, its outcome
    chans,          \* the ports that carry frames: channel -> its two queues
    calls,          \* the promises of ipc / asyncIpc / getOneMessage, in order
    props,          \* makeProperty's closure and the getClient calls under way
    transfer        \* ipc.ts's module variable `transfer`: undefined or a list

\* The frames in flight and the promises of the transport (ipc.ts).
ipcVars == <<chans, calls, props, transfer>>

vars == <<table, idCounter, names, nameCallbacks, promises, last, chans, calls,
          props, transfer>>

\* ------------------------------------------------------- JavaScript Set/Map
\* Set<number> keeps insertion order; children sets are kept as sequences
\* without repetition.
SetHas(s, x) == \E i \in 1..Len(s) : s[i] = x
SetAdd(s, x) == IF SetHas(s, x) THEN s ELSE Append(s, x)
SetDelete(s, x) == SelectSeq(s, LAMBDA y : y /= x)
SetOf(s) == {s[i] : i \in 1..Len(s)}

MapSet(m, k, v) == [x \in DOMAIN m \cup {k} |-> IF x = k THEN v ELSE m[x]]
MapDelete(m, k) == [x \in DOMAIN m \ {k} |-> m[x]]
EmptyMap == [x \in {} |-> Undef]

\* ------------------------------------------------------------------ getPID
\* A rolling counter that wraps around without the table.has test.
getPIDWrapping(t, idc) == (idc % 2) + 1

\* A counter that leaps over as many positions as there are rows, and one more.
getPIDLeaping(t, idc) == idc + Cardinality(DOMAIN t) + 2

RECURSIVE getPID(_, _)
getPID(t, idc) ==
    IF (idc + 1) \in DOMAIN t THEN getPID(t, idc + 1) ELSE idc + 1

\* ------------------------------------------------------------- isInSubtree
\* "true" | "false" | "NotFound" (the throw) | "Hang" (the while loop walks
\* a parent cycle that does not contain root and never ends).
RECURSIVE isInSubtreeLoop(_, _, _, _)
isInSubtreeLoop(t, pid, root, seen) ==
    IF pid = Undef THEN "false"
    ELSE IF pid \notin DOMAIN t THEN "NotFound"
    ELSE IF pid = root THEN "true"
    ELSE IF pid \in seen THEN "Hang"
    ELSE isInSubtreeLoop(t, t[pid].parent, root, seen \cup {pid})

\* A test that looks at pid and at its parent only.
isInSubtreeOneStep(t, pid, root) ==
    IF pid = Undef THEN "false"
    ELSE IF pid \notin DOMAIN t THEN "NotFound"
    ELSE IF pid = root \/ t[pid].parent = root THEN "true"
    ELSE "false"

isInSubtree(t, pid, root) == isInSubtreeLoop(t, pid, root, {})

\* ------------------------------------------------------------------- start
\* start taking the PID before it looks the parent up.
startAllocatesFirst(t, idc, par) ==
    LET pid == getPID(t, idc)
    IN IF TruthyPid(par) /\ par \notin DOMAIN t
       THEN [t |-> t, idc |-> pid, err |-> "NotFound", pid |-> Undef]
       ELSE LET row == [parent |-> par, children |-> <<>>, name |-> NoName]
                t1 == MapSet(t, pid, row)
                t2 == IF TruthyPid(par)
                      THEN [t1 EXCEPT ![par].children = SetAdd(@, pid)]
                      ELSE t1
            IN [t |-> t2, idc |-> pid, err |-> "ok", pid |-> pid]

\* start(child, parent?) with collaborators that return: the new table, the
\* counter, the PID returned or the error thrown.
start(t, idc, par) ==
    IF TruthyPid(par) /\ par \notin DOMAIN t
    THEN [t |-> t, idc |-> idc, err |-> "NotFound", pid |-> Undef]
    ELSE LET pid == getPID(t, idc)
             row == [parent |-> par, children |-> <<>>, name |-> NoName]
             t1 == MapSet(t, pid, row)
             t2 == IF TruthyPid(par)
                   THEN [t1 EXCEPT ![par].children = SetAdd(@, pid)]
                   ELSE t1
         IN [t |-> t2, idc |-> pid, err |-> "ok", pid |-> pid]

\* -------------------------------------------------------------------- exit
\* The loop over proc.children left out: the children are not exited.
exitChildrenSkipped(t, pid, stack, visited) == [t |-> t, err |-> "ok", log |-> <<>>]

\* exit(pid) is recursive over proc.children.  stack holds the PIDs whose
\* exit is in progress: a PID met again while it is on the stack is on a
\* parent cycle, the recursion never bottoms out and the engine throws
\* RangeError; whatever was deleted before stays deleted.  log lists the
\* PIDs whose last four statements (disableApi, table.delete, close,
\* terminate) have run, in the order in which they ran.
RECURSIVE exitCall(_, _, _)
RECURSIVE exitChildren(_, _, _, _)
exitChildren(t, pid, stack, visited) ==
    LET rest == SelectSeq(t[pid].children, LAMBDA c : c \notin visited)
    IN IF rest = <<>> THEN [t |-> t, err |-> "ok", log |-> <<>>]
       ELSE LET r == exitCall(t, Head(rest), stack)
            IN IF r.err /= "ok" THEN r
               ELSE LET r2 == exitChildren(r.t, pid, stack, visited \cup {Head(rest)})
                    IN [t |-> r2.t, err |-> r2.err, log |-> r.log \o r2.log]

exitCall(t, pid, stack) ==
    IF pid \notin DOMAIN t THEN [t |-> t, err |-> "NotFound", log |-> <<>>]
    ELSE IF pid \in stack THEN [t |-> t, err |-> "RangeError", log |-> <<>>]
    ELSE LET r == exitChildren(t, pid, stack \cup {pid}, {})
         IN IF r.err /= "ok" THEN r
            ELSE LET par == r.t[pid].parent
                     t1 == IF TruthyPid(par) /\ par \in DOMAIN r.t
                           THEN [r.t EXCEPT ![par].children = SetDelete(@, pid)]
                           ELSE r.t
                 IN [t |-> MapDelete(t1, pid), err |-> "ok", log |-> Append(r.log, pid)]

exit(t, pid) == exitCall(t, pid, {})

\* ---------------------------------------------------------------- reparent
\* reparent that leaves pid in the children of its old parent.
reparentKeepsOld(t, pid, par) ==
    IF pid \notin DOMAIN t \/ (par /= Undef /\ par \notin DOMAIN t)
    THEN [t |-> t, err |-> "NotFound"]
    ELSE IF TruthyPid(par)
         THEN [t |-> [t EXCEPT ![par].children = SetAdd(@, pid), ![pid].parent = par],
               err |-> "ok"]
         ELSE [t |-> [t EXCEPT ![pid].parent = Undef], err |-> "ok"]

reparent(t, pid, par) ==
    IF pid \notin DOMAIN t \/ (par /= Undef /\ par \notin DOMAIN t)
    THEN [t |-> t, err |-> "NotFound"]
    ELSE LET old == t[pid].parent
         IN IF TruthyPid(old) /\ old \notin DOMAIN t
            THEN [t |-> t, err |-> "BUG"]
            ELSE LET t1 == IF TruthyPid(old)
                           THEN [t EXCEPT ![old].children = SetDelete(@, pid),
                                          ![pid].parent = Undef]
                           ELSE t
                     t2 == IF TruthyPid(par)
                           THEN [t1 EXCEPT ![par].children = SetAdd(@, pid),
                                           ![pid].parent = par]
                           ELSE t1
                 IN [t |-> t2, err |-> "ok"]

\* -------------------------------------------------------------------- name
\* A resolver of a promise that is already settled does nothing.
RECURSIVE fireCallbacks(_, _, _)
fireCallbacks(prom, callbacks, pid) ==
    IF callbacks = <<>> THEN prom
    ELSE LET cb == Head(callbacks)
             p1 == IF prom[cb] = Undef THEN [prom EXCEPT ![cb] = pid] ELSE prom
         IN fireCallbacks(p1, Tail(callbacks), pid)

\* The loop without its `!names.has(name)` test: the first option is taken.
nameLoopTakesFirst(nms, options, i) == IF i > Len(options) THEN 0 ELSE i

\* The for loop of name(): index of the first option names does not have,
\* 0 when the loop runs off the end.
RECURSIVE nameLoop(_, _, _)
nameLoop(nms, options, i) ==
    IF i > Len(options) THEN 0
    ELSE IF options[i] \notin DOMAIN nms THEN i
    ELSE nameLoop(nms, options, i + 1)

name(t, nms, cbs, prom, pid, options) ==
    IF pid \notin DOMAIN t
    THEN [t |-> t, names |-> nms, promises |-> prom, res |-> "NotFound", nm |-> NoName]
    ELSE LET prior == t[pid].name
             nms1 == IF TruthyName(prior) THEN MapDelete(nms, prior) ELSE nms
             t1 == IF TruthyName(prior) THEN [t EXCEPT ![pid].name = NoName] ELSE t
             i == nameLoop(nms1, options, 1)
         IN IF i = 0
            THEN [t |-> t1, names |-> nms1, promises |-> prom, res |-> "false", nm |-> NoName]
            ELSE LET n == options[i]
                 IN [t |-> [t1 EXCEPT ![pid].name = n],
                     names |-> MapSet(nms1, n, pid),
                     promises |-> IF n \in DOMAIN cbs
                                  THEN fireCallbacks(prom, cbs[n], pid)
                                  ELSE prom,
                     res |-> "ok", nm |-> n]

\* -------------------------------------------------------------------- find
RECURSIVE find(_, _)
find(nms, options) ==
    IF Len(options) = 0 THEN [res |-> "false", nm |-> NoName, pid |-> Undef]
    ELSE IF options[1] \in DOMAIN nms
         THEN [res |-> "ok", nm |-> options[1], pid |-> nms[options[1]]]
         ELSE find(nms, Tail(options))

\* -------------------------------------------------------------------- wait
\* Either the holder's PID, or a new promise whose resolver is queued.
wait(nms, cbs, prom, n) ==
    IF n \in DOMAIN nms
    THEN [cbs |-> cbs, promises |-> prom, res |-> "ok", pid |-> nms[n], promise |-> <<>>]
    ELSE LET id == Len(prom) + 1
         IN [cbs |-> IF n \in DOMAIN cbs
                     THEN [cbs EXCEPT ![n] = Append(@, id)]
                     ELSE MapSet(cbs, n, <<id>>),
             promises |-> Append(prom, Undef),
             res |-> "promise", pid |-> Undef, promise |-> <<id>>]

\* ---------------------------------------------------------------- children
children(t, pid) ==
    IF pid = Undef
    THEN [err |-> "ok", set |-> {p \in DOMAIN t : t[p].parent = Undef}, list |-> <<>>]
    ELSE IF pid \notin DOMAIN t THEN [err |-> "NotFound", set |-> {}, list |-> <<>>]
    ELSE [err |-> "ok", set |-> SetOf(t[pid].children), list |-> t[pid].children]

\* ------------------------------------------------------------------ parent
parent(t, pid) ==
    IF pid \notin DOMAIN t THEN [err |-> "NotFound", pid |-> Undef]
    ELSE [err |-> "ok", pid |-> t[pid].parent]

\* ---------------------------------------------------------------- buildAPI
\* The handlers of the server installed on the port of process pid.  An
\* error is the value thrown, which the server sends back as {error}.
Guard(s, deny) ==
    IF s = "NotFound" THEN "NotFound"
    ELSE IF s = "Hang" THEN "Hang"
    ELSE IF s = deny THEN "deny" ELSE "pass"

\* The start handler passing no parent on.
buildAPI_startAsRoot(t, idc, pid) == start(t, idc, Undef)

buildAPI_start(t, idc, pid) == start(t, idc, pid)

\* start(child, parent?) with collaborators that may throw.  fail names the
\* one that does: "getPort" is called for a string child before the PID is
\* taken; "hostApi" is hostApiCallback(pid), called by buildAPI(pid) after
\* table.set(pid, process) and before parentObj.children.add(pid).
Fails == {"none", "getPort", "hostApi"}
startThrowing(t, idc, par, fail) ==
    IF TruthyPid(par) /\ par \notin DOMAIN t
    THEN [t |-> t, idc |-> idc, err |-> "NotFound", pid |-> Undef]
    ELSE IF fail = "getPort"
    THEN [t |-> t, idc |-> idc, err |-> "getPort", pid |-> Undef]
    ELSE LET pid == getPID(t, idc)
             row == [parent |-> par, children |-> <<>>, name |-> NoName]
             t1 == MapSet(t, pid, row)
         IN IF fail = "hostApi"
            THEN [t |-> t1, idc |-> pid, err |-> "hostApi", pid |-> Undef]
            ELSE start(t, idc, par)

\* The exit handler without its subtree check.
buildAPI_exitUnchecked(t, pid, arg) == exit(t, pid)

buildAPI_exit(t, pid, arg) ==
    LET process == IF arg = Undef THEN pid ELSE arg
        g == Guard(isInSubtree(t, process, pid), "false")
    IN IF g = "deny" THEN [t |-> t, err |-> "NotDescendant", log |-> <<>>]
       ELSE IF g /= "pass" THEN [t |-> t, err |-> g, log |-> <<>>]
       ELSE exit(t, pid)

buildAPI_children(t, pid, arg) ==
    LET process == IF arg = Undef THEN pid ELSE arg
        g == Guard(isInSubtree(t, process, pid), "false")
    IN IF g = "deny" THEN [err |-> "NotDescendant", list |-> <<>>]
       ELSE IF g /= "pass" THEN [err |-> g, list |-> <<>>]
       ELSE [err |-> children(t, process).err, list |-> children(t, process).list]

buildAPI_parent(t, pid, arg) ==
    LET process == IF arg = Undef THEN pid ELSE arg
        g == Guard(isInSubtree(t, process, pid), "false")
    IN IF g = "deny" THEN [err |-> "NotDescendant", pid |-> Undef]
       ELSE IF g /= "pass" THEN [err |-> g, pid |-> Undef]
       ELSE parent(t, process)

\* The reparent handler refusing only a process as its own parent.
buildAPI_reparentSelfOnly(t, pid, process, arg) ==
    LET target == IF arg = Undef THEN pid ELSE arg
        g1 == Guard(isInSubtree(t, process, pid), "false")
    IN IF g1 = "deny" THEN [t |-> t, err |-> "NotDescendant"]
       ELSE IF g1 /= "pass" THEN [t |-> t, err |-> g1]
       ELSE IF target = process THEN [t |-> t, err |-> "Topology"]
       ELSE reparent(t, process, target)

\* The reparent handler without its topology check.
buildAPI_reparentUnchecked(t, pid, process, arg) ==
    LET target == IF arg = Undef THEN pid ELSE arg
        g1 == Guard(isInSubtree(t, process, pid), "false")
    IN IF g1 = "deny" THEN [t |-> t, err |-> "NotDescendant"]
       ELSE IF g1 /= "pass" THEN [t |-> t, err |-> g1]
       ELSE reparent(t, process, target)

\* reparent without its test that process is under the caller.
buildAPI_reparentAnyProcess(t, pid, process, arg) ==
    LET target == IF arg = Undef THEN pid ELSE arg
        g2 == Guard(isInSubtree(t, target, process), "true")
    IN IF g2 = "deny" THEN [t |-> t, err |-> "Topology"]
       ELSE IF g2 /= "pass" THEN [t |-> t, err |-> g2]
       ELSE reparent(t, process, target)

buildAPI_reparent(t, pid, process, arg) ==
    LET target == IF arg = Undef THEN pid ELSE arg
        g1 == Guard(isInSubtree(t, process, pid), "false")
        g2 == Guard(isInSubtree(t, target, process), "true")
    IN IF g1 = "deny" THEN [t |-> t, err |-> "NotDescendant"]
       ELSE IF g1 /= "pass" THEN [t |-> t, err |-> g1]
       ELSE IF g2 = "deny" THEN [t |-> t, err |-> "Topology"]
       ELSE IF g2 /= "pass" THEN [t |-> t, err |-> g2]
       ELSE reparent(t, process, target)

\* ------------------------------------------------------------- the ports
\* A channel is a pair of entangled ports.  peer is the process that holds
\* the client end; api is the PID whose buildAPI handlers listen on the
\* host's end (Undef: none); over is the port on which the host's end came
\* in as a sub-channel offer and whose handler installed the handlers on it
\* (0: none); up are the frames on their way to the host, down those on
\* their way to the peer; open is false once the peer has closed its end;
\* closed and terminated tell what exit has called on the host's end, and
\* disabled counts the calls of the cancel closure makeServer returned for
\* the port.  The root port of process p is channel p and is there, with its
\* server, from start(p) on; the sub-channels are -1, -2, ...
RootChan(p) ==
    [peer |-> p, api |-> p, over |-> 0, up |-> <<>>, down |-> <<>>, open |-> TRUE,
     closed |-> FALSE, terminated |-> FALSE, disabled |-> 0]
SubChan(p) ==
    [peer |-> p, api |-> Undef, over |-> 0, up |-> <<>>, down |-> <<>>, open |-> TRUE,
     closed |-> FALSE, terminated |-> FALSE, disabled |-> 0]
Chan(cs, ch) == IF ch \in DOMAIN cs THEN cs[ch] ELSE RootChan(ch)

\* getPort / the child handed to start: the host starts the processes with
\* an even PID from a URL, as workers, the others from a MessagePort.
IsWorker(pid) == pid % 2 = 0

\* The ports whose handlers the cancel closure of port ch removes: ch and
\* every sub-channel installed over one of them, whenever it was offered.
RECURSIVE cancelChain(_, _)
cancelChain(cs, done) ==
    LET more == {x \in DOMAIN cs : cs[x].over \in done} \ done
    IN IF more = {} THEN done ELSE cancelChain(cs, done \cup more)

\* The cancel closure taking the listeners off the port itself only.
cancelRootOnly(cs, ch) ==
    [x \in DOMAIN cs \cup {ch} |->
        IF x = ch THEN [Chan(cs, x) EXCEPT !.api = Undef, !.disabled = @ + 1]
        ELSE cs[x]]

\* The cancel closure makeServer returned for port ch is called.
cancel(cs, ch) ==
    LET chain == cancelChain(cs, {ch})
    IN [x \in DOMAIN cs \cup {ch} |->
           IF x = ch THEN [Chan(cs, x) EXCEPT !.api = Undef, !.disabled = @ + 1]
           ELSE IF x \in chain THEN [cs[x] EXCEPT !.api = Undef]
           ELSE cs[x]]

\* The end of exit without the call of disableApi.
exitPortKeepsApi(cs, pid) ==
    [x \in DOMAIN cs \cup {pid} |->
        IF x = pid THEN [Chan(cs, x) EXCEPT !.closed = @ \/ ~IsWorker(pid),
                                            !.terminated = @ \/ IsWorker(pid)]
        ELSE cs[x]]

\* The end of exit(pid): proc.disableApi?.(), then close or terminate,
\* whichever the port has.
exitPort(cs, pid) ==
    [cancel(cs, pid) EXCEPT ![pid].closed = @ \/ ~IsWorker(pid),
                            ![pid].terminated = @ \/ IsWorker(pid)]

\* The ports after the exits of log, in their order.
RECURSIVE exitPorts(_, _)
exitPorts(cs, log) ==
    IF log = <<>> THEN cs ELSE exitPorts(exitPort(cs, Head(log)), Tail(log))

\* ---------------------------------------------------------------- the call
\* caller is Undef for a call the host makes on the ProcessHost object.
\* live is the set of PIDs in the table when the call was made.
Call(op, caller, a, b, opts, res, pid, nm, list) ==
    [op |-> op, caller |-> caller, a |-> a, b |-> b, opts |-> opts,
     res |-> res, pid |-> pid, nm |-> nm, list |-> list, live |-> DOMAIN table]

\* The host's single thread is stuck in isInSubtree's loop: nothing runs.
Hung == last.res = "Hang"

\* No property is made yet and no getClient call is under way.
NoProps ==
    [server |-> EmptyMap, ports |-> EmptyMap, clients |-> <<>>,
     requests |-> <<>>, writes |-> 0, posts |-> 0, rpcs |-> <<>>,
     order |-> <<>>]

Init ==
    /\ table = EmptyMap
    /\ idCounter = 0
    /\ names = EmptyMap
    /\ nameCallbacks = EmptyMap
    /\ promises = <<>>
    /\ last = Call("init", Undef, Undef, Undef, <<>>, "ok", Undef, NoName, <<>>)
    /\ chans = EmptyMap
    /\ calls = <<>>
    /\ props = NoProps
    /\ transfer = Undefined

\* --------------------------------------------------- the host's own calls
HostStart(par) ==
    /\ ~Hung
    /\ idCounter < MaxPid
    /\ LET r == start(table, idCounter, par)
       IN /\ table' = r.t
          /\ idCounter' = r.idc
          /\ last' = Call("start", Undef, par, Undef, <<>>, r.err, r.pid, NoName, <<>>)
    /\ UNCHANGED <<names, nameCallbacks, promises>>
    /\ UNCHANGED ipcVars

HostExit(pid) ==
    /\ ~Hung
    /\ LET r == exit(table, pid)
       IN /\ table' = r.t
          /\ chans' = exitPorts(chans, r.log)
          /\ last' = Call("exit", Undef, pid, Undef, <<>>, r.err, Undef, NoName, r.log)
    /\ UNCHANGED <<transfer, props, idCounter, names, nameCallbacks, promises, calls>>

HostReparent(pid, par) ==
    /\ ~Hung
    /\ LET r == reparent(table, pid, par)
       IN /\ table' = r.t
          /\ last' = Call("reparent", Undef, pid, par, <<>>, r.err, Undef, NoName, <<>>)
    /\ UNCHANGED <<idCounter, names, nameCallbacks, promises>>
    /\ UNCHANGED ipcVars

HostChildren(pid) ==
    /\ ~Hung
    /\ LET r == children(table, pid)
       IN last' = Call("children", Undef, pid, Undef, <<>>, r.err, Undef, NoName, r.list)
    /\ UNCHANGED <<table, idCounter, names, nameCallbacks, promises>>
    /\ UNCHANGED ipcVars

HostParent(pid) ==
    /\ ~Hung
    /\ LET r == parent(table, pid)
       IN last' = Call("parent", Undef, pid, Undef, <<>>, r.err, r.pid, NoName, <<>>)
    /\ UNCHANGED <<table, idCounter, names, nameCallbacks, promises>>
    /\ UNCHANGED ipcVars

HostName(pid, options) ==
    /\ ~Hung
    /\ LET r == name(table, names, nameCallbacks, promises, pid, options)
       IN /\ table' = r.t
          /\ names' = r.names
          /\ promises' = r.promises
          /\ last' = Call("name", Undef, pid, Undef, options, r.res, Undef, r.nm, <<>>)
    /\ UNCHANGED <<idCounter, nameCallbacks>>
    /\ UNCHANGED ipcVars

\* start by the host, with a collaborator that may throw.
HostStartVia(par, fail) ==
    /\ ~Hung
    /\ idCounter < MaxPid
    /\ LET r == startThrowing(table, idCounter, par, fail)
       IN /\ table' = r.t
          /\ idCounter' = r.idc
          /\ last' = Call("start", Undef, par, Undef, <<>>, r.err, r.pid, NoName, <<>>)
    /\ UNCHANGED <<names, nameCallbacks, promises>>
    /\ UNCHANGED ipcVars

\* ------------------------------------- the calls of a process on its port
\* The server of process c answers from buildAPI(c) until exit(c) disables it.
ApiStart(c) ==
    /\ ~Hung
    /\ c \in DOMAIN table
    /\ idCounter < MaxPid
    /\ LET r == buildAPI_start(table, idCounter, c)
       IN /\ table' = r.t
          /\ idCounter' = r.idc
          /\ last' = Call("start", c, Undef, Undef, <<>>, r.err, r.pid, NoName, <<>>)
    /\ UNCHANGED <<names, nameCallbacks, promises>>
    /\ UNCHANGED ipcVars

ApiExit(c, arg) ==
    /\ ~Hung
    /\ c \in DOMAIN table
    /\ LET r == buildAPI_exit(table, c, arg)
       IN /\ table' = r.t
          /\ chans' = exitPorts(chans, r.log)
          /\ last' = Call("exit", c, arg, Undef, <<>>, r.err, Undef, NoName, r.log)
    /\ UNCHANGED <<transfer, props, idCounter, names, nameCallbacks, promises, calls>>

ApiChildren(c, arg) ==
    /\ ~Hung
    /\ c \in DOMAIN table
    /\ LET r == buildAPI_children(table, c, arg)
       IN last' = Call("children", c, arg, Undef, <<>>, r.err, Undef, NoName, r.list)
    /\ UNCHANGED <<table, idCounter, names, nameCallbacks, promises>>
    /\ UNCHANGED ipcVars

ApiParent(c, arg) ==
    /\ ~Hung
    /\ c \in DOMAIN table
    /\ LET r == buildAPI_parent(table, c, arg)
       IN last' = Call("parent", c, arg, Undef, <<>>, r.err, r.pid, NoName, <<>>)
    /\ UNCHANGED <<table, idCounter, names, nameCallbacks, promises>>
    /\ UNCHANGED ipcVars

ApiReparent(c, process, arg) ==
    /\ ~Hung
    /\ c \in DOMAIN table
    /\ LET r == buildAPI_reparent(table, c, process, arg)
       IN /\ table' = r.t
          /\ last' = Call("reparent", c, process, arg, <<>>, r.err, Undef, NoName, <<>>)
    /\ UNCHANGED <<idCounter, names, nameCallbacks, promises>>
    /\ UNCHANGED ipcVars

HostFind(options) ==
    /\ ~Hung
    /\ LET r == find(names, options)
       IN last' = Call("find", Undef, Undef, Undef, options, r.res, r.pid, r.nm, <<>>)
    /\ UNCHANGED <<table, idCounter, names, nameCallbacks, promises>>
    /\ UNCHANGED ipcVars

\* wait(n), cut off once max promises have been created.
WaitCall(n, max) ==
    /\ ~Hung
    /\ LET r == wait(names, nameCallbacks, promises, n)
       IN /\ r.res = "promise" => Len(promises) < max
          /\ nameCallbacks' = r.cbs
          /\ promises' = r.promises
          /\ last' = Call("wait", Undef, Undef, Undef, <<n>>, r.res, r.pid, NoName, r.promise)
    /\ UNCHANGED <<table, idCounter, names>>
    /\ UNCHANGED ipcVars

HostWait(n) == WaitCall(n, MaxWaits)

Options == UNION {[1..k -> Names] : k \in 0..MaxOptions}

\* start called by process c, with a collaborator that may throw.
ApiStartVia(c, fail) ==
    /\ ~Hung
    /\ c \in DOMAIN table
    /\ idCounter < MaxPid
    /\ LET r == startThrowing(table, idCounter, c, fail)
       IN /\ table' = r.t
          /\ idCounter' = r.idc
          /\ last' = Call("start", c, Undef, Undef, <<>>, r.err, r.pid, NoName, <<>>)
    /\ UNCHANGED <<names, nameCallbacks, promises>>
    /\ UNCHANGED ipcVars

\* ------------------------------------------------------------------ ipc.ts
\* `if (reply.error)`: the values of the model that JavaScript takes as false.
Truthy(v) == v /= Undefined /\ v /= Num(0) /\ v /= Str("")
\* table.get(v): the PID a value denotes, Undef when it denotes none.
PidOf(v) == IF \E p \in Pids : Num(p) = v THEN CHOOSE p \in Pids : Num(p) = v ELSE Undef

\* The frames: {call, args}, {result}, {error}, {channel: "close"}, a bare
\* MessagePort (a sub-channel offer) and the array [pid, data] send posts.
\* cid is the promise of the request a frame belongs to (0: none); it is
\* bookkeeping that no code reads.
Frame(type, call, args, val, cid, port) ==
    [type |-> type, call |-> call, args |-> args, val |-> val, cid |-> cid, port |-> port]
\* {call, args, transfer}: ipc posts the list of transferables in the frame
\* as well, [] when the caller names none.
CallFrameWith(call, args, cid, list) ==
    [type |-> "call", call |-> call, args |-> args, val |-> Undefined,
     cid |-> cid, port |-> 0, transfer |-> Arr(list)]
CallFrame(call, args, cid) == CallFrameWith(call, args, cid, <<>>)
ResultFrame(v, cid) == Frame("result", "", <<>>, v, cid, 0)
ErrorFrame(e, cid) == Frame("error", "", <<>>, e, cid, 0)
CloseFrame == Frame("close", "", <<>>, Undefined, 0, 0)
PortFrame(ch) == Frame("port", "", <<>>, Undefined, 0, ch)
DataFrame(from, data) == Frame("data", "", <<Num(from), data>>, Undefined, 0, 0)
\* Any other value posted as it is (the host's own send).
RawFrame(data) == Frame("raw", "", <<>>, data, 0, 0)
NoFrame == Frame("none", "", <<>>, Undefined, 0, 0)

\* reply.error and reply.result of whatever frame arrived.
FieldError(f) == IF f.type = "error" THEN f.val ELSE Undefined
FieldResult(f) == IF f.type = "result" THEN f.val ELSE Undefined
isMessageTarget(f) == f.type = "port"

ClosedPrematurely == Err("The channel was closed prematurely")

\* getOneMessage without its test for the close frame.
getOneMessageAnyFrame(f) == [state |-> "resolved", val |-> Undefined]

\* getOneMessage: how the promise settles on the next frame f of the port
\* (resolved, it carries the frame itself, kept in the reply field).
getOneMessage(f) ==
    IF f.type = "close"
    THEN [state |-> "rejected", val |-> ClosedPrematurely]
    ELSE [state |-> "resolved", val |-> Undefined]

\* ipc resolving with the error of the reply instead of its result.
ipcReturnsError(f) ==
    LET m == getOneMessage(f)
    IN IF m.state = "rejected" THEN m
       ELSE [state |-> "resolved", val |-> FieldError(f)]

\* ipc after its postMessage: the await of getOneMessage and the two returns.
ipc(f) ==
    LET m == getOneMessage(f)
    IN IF m.state = "rejected" THEN m
       ELSE IF Truthy(FieldError(f))
            THEN [state |-> "rejected", val |-> FieldError(f)]
            ELSE [state |-> "resolved", val |-> FieldResult(f)]

\* What a handler does: it returns val or throws val, at once or only after
\* a suspension (async); none: the handler was not called yet.
Outcome(kind, val, async) == [kind |-> kind, val |-> val, async |-> async]
NoOutcome == Outcome("none", Undefined, FALSE)

\* handleIpc's handler posting {result} inside the try block and then
\* falling into the catch block as well.
handleIpcRepliesTwice(nm, f, out) ==
    IF f.type /= "call" \/ f.call /= nm THEN <<>>
    ELSE IF out.kind = "return"
         THEN <<ResultFrame(out.val, f.cid), ErrorFrame(out.val, f.cid)>>
         ELSE <<ErrorFrame(out.val, f.cid)>>

\* handleIpc's handler for the call nm on frame f, its callback having ended
\* as out: the frames it posts on the port.
handleIpc(nm, f, out) ==
    IF f.type /= "call" \/ f.call /= nm THEN <<>>
    ELSE IF out.kind = "return" THEN <<ResultFrame(out.val, f.cid)>>
    ELSE <<ErrorFrame(out.val, f.cid)>>

\* The module variable `transfer` when the handler's synchronous part is over:
\* `transfer = ev.data.transfer`, then `callback(...args)`, then
\* `transfer = undefined`, a statement a callback that throws jumps over.
handleIpc_transfer(f, out) ==
    IF out.kind = "throw" /\ ~out.async THEN f.transfer ELSE Undefined

\* getTransfer(): the list in `transfer`, [] when it holds no array.
getTransfer(tr) == IF tr /= Undefined /\ Head(tr) = "array" THEN Tail(tr) ELSE <<>>

\* The object buildAPI hands to makeServer, as <<key, typeof value>> in the
\* order of its properties: the handlers of buildAPI, then what the host's
\* hostApiCallback(pid) adds (here a function and a plain string).
hostApiCallback(pid) == << <<"echo", "function">>, <<"version", "string">> >>
buildAPI_table(pid) ==
    << <<"start", "function">>, <<"exit", "function">>, <<"children", "function">>,
       <<"parent", "function">>, <<"reparent", "function">>, <<"getPid", "function">>,
       <<"send", "function">>, <<"name", "function">>, <<"find", "function">>,
       <<"wait", "function">> >> \o hostApiCallback(pid)

KeysOf(entries) == [i \in 1..Len(entries) |-> entries[i][1]]

\* makeServer listing every own property, callable or not.
makeServerUnfiltered(tbl) ==
    [help |-> KeysOf(tbl),
     handlers |-> {"help"} \cup {tbl[i][1] : i \in {j \in 1..Len(tbl) : tbl[j][2] = "function"}}]

\* makeServer: the list the help handler returns and the call names that
\* get a handler.
makeServer(tbl) ==
    LET keys == SelectSeq(tbl, LAMBDA e : e[2] = "function")
    IN [help |-> KeysOf(keys),
        handlers |-> {"help"} \cup
                     {keys[i][1] : i \in {j \in 1..Len(keys) : keys[j][2] = "function"}}]

\* ------------------------------------------------------- getPid and send
buildAPI_getPid(pid, args) == Num(pid)

\* send(pid, data, transfer) of the host: the frame it posts and on whose port.
send(t, target, data) ==
    IF PidOf(target) \notin DOMAIN t
    THEN [err |-> "NotFound", to |-> Undef, frame |-> NoFrame]
    ELSE [err |-> "ok", to |-> PidOf(target), frame |-> data]

\* The send handler stamping the frame with the target instead of the caller.
buildAPI_sendStampsTarget(t, pid, args) ==
    LET target == IF Len(args) >= 1 THEN args[1] ELSE Undefined
        data == IF Len(args) >= 2 THEN args[2] ELSE Undefined
    IN send(t, target, DataFrame(PidOf(target), data))

buildAPI_send(t, pid, args) ==
    LET target == IF Len(args) >= 1 THEN args[1] ELSE Undefined
        data == IF Len(args) >= 2 THEN args[2] ELSE Undefined
    IN send(t, target, DataFrame(pid, data))

\* ----------------------------------------------------- posting on a port
PostUp(cs, ch, f) ==
    [x \in DOMAIN cs \cup {ch} |->
        IF x = ch THEN [Chan(cs, ch) EXCEPT !.up = Append(@, f)] ELSE cs[x]]
PostDown(cs, ch, f) ==
    [x \in DOMAIN cs \cup {ch} |->
        IF x = ch THEN [Chan(cs, ch) EXCEPT !.down = Append(@, f)] ELSE cs[x]]
\* One postMessage for each of the frames, in order.
RECURSIVE PostFrames(_, _, _)
PostFrames(cs, ch, frames) ==
    IF frames = <<>> THEN cs
    ELSE PostFrames(PostDown(cs, ch, Head(frames)), ch, Tail(frames))

\* The promises pending on the next frame of port ch (the once-listeners).
Waiting(cl, ch) == {i \in 1..Len(cl) : cl[i].ch = ch /\ cl[i].state = "waiting"}

\* The promise of one ipc, asyncIpc or getOneMessage call.  proc made the
\* call; ret is what the handler did with the request; reply is the frame
\* that settled the promise; posted counts the reply frames the server has
\* posted for the request.
\* list is the transfer list the caller names; got is what getTransfer()
\* answers in the synchronous part of the handler that serves the request;
\* promise is the promise of wait() the handler awaits (0: none).
NewCallWith(proc, mode, ch, call, args, list) ==
    [proc |-> proc, mode |-> mode, ch |-> ch, call |-> call, args |-> args,
     state |-> "waiting", val |-> Undefined, reply |-> NoFrame,
     ret |-> NoOutcome, replied |-> FALSE, posted |-> 0, list |-> list,
     got |-> <<>>, promise |-> 0]
NewCall(proc, mode, ch, call, args) == NewCallWith(proc, mode, ch, call, args, <<>>)

\* ------------------------------------------------------------ the client
\* Process p makes the in-band call: the frame is posted on its root port and
\* the promise waits for the next frame there.  As the library asks, p makes
\* no in-band call while it is waiting on that port.  The calls are cut off
\* once max of them have been made.
IpcCallWith(p, call, args, list, max) ==
    /\ ~Hung
    /\ p \in DOMAIN table
    /\ Len(calls) < max
    /\ Waiting(calls, p) = {}
    /\ chans' = PostUp(chans, p, CallFrameWith(call, args, Len(calls) + 1, list))
    /\ calls' = Append(calls, NewCallWith(p, "ipc", p, call, args, list))
    /\ UNCHANGED <<transfer, props, table, idCounter, names, nameCallbacks, promises, last>>

\* ipc(port, call, args): the transfer list defaults to [].
IpcCall(p, call, args, max) == IpcCallWith(p, call, args, <<>>, max)

Ipc(p, call, args) == IpcCall(p, call, args, MaxCalls)

\* Process p posts on its root port a frame that is no request and no port,
\* while nothing is on its way there.
PostRaw(p, data) ==
    /\ ~Hung
    /\ p \in DOMAIN table
    /\ Chan(chans, p).up = <<>>
    /\ chans' = PostUp(chans, p, RawFrame(data))
    /\ UNCHANGED <<transfer, props, table, idCounter, names, nameCallbacks, promises, last, calls>>

\* getSubChannel handing out the one channel it made first.
getSubChannelShared(cs) == 0 - 1

\* getSubChannel: the new MessageChannel, a channel no call has used.
getSubChannel(cs) == 0 - (Cardinality({c \in DOMAIN cs : c < 0}) + 1)

\* The ports process p holds and has not closed: its root port and the
\* sub-channels it has made.
Held(cs, p) == {p} \cup {ch \in DOMAIN cs : ch < 0 /\ cs[ch].peer = p /\ cs[ch].open}

\* Process p makes a sub-channel of port over and keeps it (worker.ts):
\* getSubChannel posts port1 on over.  No more than max sub-channels are made.
GetSubChannel(p, over, max) ==
    /\ ~Hung
    /\ p \in DOMAIN table
    /\ over \in Held(chans, p)
    /\ Cardinality({c \in DOMAIN chans : c < 0}) < max
    /\ LET sub == getSubChannel(chans)
           c1 == PostUp(chans, over, PortFrame(sub))
       IN chans' = [x \in DOMAIN c1 \cup {sub} |-> IF x = sub THEN SubChan(p) ELSE c1[x]]
    /\ UNCHANGED <<transfer, props, table, idCounter, names, nameCallbacks, promises, last, calls>>

\* Process p makes the sub-channel call asyncIpc(over, call, args):
\* getSubChannel posts port1 on the port over, ipc posts the request on port2
\* and waits there.  The calls are cut off once max of them have been made.
AsyncIpcOver(p, over, call, args, max) ==
    /\ ~Hung
    /\ p \in DOMAIN table
    /\ over \in Held(chans, p)
    /\ Len(calls) < max
    /\ LET sub == getSubChannel(chans)
           c1 == PostUp(chans, over, PortFrame(sub))
           req == CallFrame(call, args, Len(calls) + 1)
       IN /\ chans' = [x \in DOMAIN c1 \cup {sub} |->
                          IF x = sub THEN [SubChan(p) EXCEPT !.up = <<req>>] ELSE c1[x]]
          /\ calls' = Append(calls, NewCall(p, "asyncIpc", sub, call, args))
    /\ UNCHANGED <<transfer, props, table, idCounter, names, nameCallbacks, promises, last>>

\* The sub-channel call made on the root port of p.
AsyncIpcCall(p, call, args, max) == AsyncIpcOver(p, p, call, args, max)
AsyncIpc(p, call, args) == AsyncIpcCall(p, call, args, MaxCalls)

\* Process p waits for the next frame of its root port.
GetOneMessage(p) ==
    /\ ~Hung
    /\ p \in DOMAIN table
    /\ Len(calls) < MaxCalls
    /\ Waiting(calls, p) = {}
    /\ calls' = Append(calls, NewCall(p, "getOneMessage", p, "", <<>>))
    /\ UNCHANGED <<transfer, props, table, idCounter, names, nameCallbacks, promises, last, chans>>

\* How the promise c settles on frame f.
Settle(c, f) ==
    LET r == IF c.mode = "getOneMessage" THEN getOneMessage(f) ELSE ipc(f)
    IN [c EXCEPT !.state = r.state, !.val = r.val, !.reply = f]

\* The next frame of port ch is delivered to the peer: every once-listener
\* of the port fires, and asyncIpc's finally closes the sub-channel.
Receive(ch) ==
    /\ ~Hung
    /\ ch \in DOMAIN chans
    /\ chans[ch].open
    /\ chans[ch].down /= <<>>
    /\ LET f == Head(chans[ch].down)
           w == Waiting(calls, ch)
       IN /\ calls' = [i \in 1..Len(calls) |->
                          IF i \in w THEN Settle(calls[i], f) ELSE calls[i]]
          /\ chans' = [chans EXCEPT
                          ![ch].down = Tail(@),
                          ![ch].open = ~\E i \in w : calls[i].mode = "asyncIpc"]
    /\ UNCHANGED <<transfer, props, table, idCounter, names, nameCallbacks, promises, last>>

\* The other side gives a port up while the peer waits on it and nothing is
\* on its way: the frame {channel: "close"} is posted to the peer.
PostClose(ch) ==
    /\ ~Hung
    /\ ch \in DOMAIN chans
    /\ chans[ch].open
    /\ Waiting(calls, ch) /= {}
    /\ chans[ch].down = <<>>
    /\ chans' = PostDown(chans, ch, CloseFrame)
    /\ UNCHANGED <<transfer, props, table, idCounter, names, nameCallbacks, promises, last, calls>>

\* ------------------------------------------------------------ the server
\* The host calls send(target, data) on the ProcessHost object, for a
\* target that is waiting on its port: data is posted there as it is.
HostSend(target, data) ==
    /\ ~Hung
    /\ Waiting(calls, target) /= {}
    /\ Len(Chan(chans, target).down) < MaxSent
    /\ LET r == send(table, Num(target), RawFrame(data))
       IN chans' = IF r.err = "ok" THEN PostDown(chans, r.to, r.frame) ELSE chans
    /\ UNCHANGED <<transfer, props, table, idCounter, names, nameCallbacks, promises, last, calls>>

\* The host calls send(target, data) for any target, live or not, while no
\* frame is on its way.
SendTo(target, data) ==
    /\ ~Hung
    /\ \A ch \in DOMAIN chans : chans[ch].down = <<>>
    /\ LET r == send(table, Num(target), RawFrame(data))
       IN /\ chans' = IF r.err = "ok" THEN PostDown(chans, r.to, r.frame) ELSE chans
          /\ last' = Call("send", Undef, target, Undef, <<>>, r.err, Undef, NoName, <<>>)
    /\ UNCHANGED <<transfer, props, table, idCounter, names, nameCallbacks, promises, calls>>

\* What the handler of call nm, built by buildAPI(pid), does with args: its
\* outcome and the frame send puts on a port.  The handler the host supplied
\* ends as out, which is the host's choice.
Invoke(t, pid, nm, args, out) ==
    IF nm = "getPid"
    THEN [ret |-> Outcome("return", buildAPI_getPid(pid, args), FALSE),
          to |-> Undef, frame |-> NoFrame]
    ELSE IF nm = "help"
    THEN [ret |-> Outcome("return", Arr(makeServer(buildAPI_table(pid)).help), FALSE),
          to |-> Undef, frame |-> NoFrame]
    ELSE IF nm = "send"
    THEN LET r == buildAPI_send(t, pid, args)
         IN IF r.err = "ok"
            THEN [ret |-> Outcome("return", Undefined, FALSE), to |-> r.to, frame |-> r.frame]
            ELSE [ret |-> Outcome("throw", Err("Process not found"), FALSE),
                  to |-> Undef, frame |-> NoFrame]
    ELSE [ret |-> out, to |-> Undef, frame |-> NoFrame]

Values == {Undefined, Str("x")}
Outcomes == {Outcome(k, v, a) : k \in {"return", "throw"}, v \in Values, a \in BOOLEAN}
DefaultOutcome == Outcome("return", Undefined, FALSE)

\* handleAsyncIpc's handler installing the handlers on the ports offered on
\* the root port only.
handleAsyncIpcOnRootOnly(cs, ch, port, pid) ==
    IF ch > 0 THEN [cs EXCEPT ![port].api = pid, ![port].over = ch] ELSE cs

\* handleAsyncIpc's handler on port ch of the server of pid, for the port it
\* was sent: handleAsyncIpc is called on that port and the port is started.
handleAsyncIpc(cs, ch, port, pid) == [cs EXCEPT ![port].api = pid, ![port].over = ch]

\* The next frame of port ch is delivered to the host, where the handlers of
\* makeServer(port, table, sync) listen (until the cancel closure removes
\* them): a port offer gets the same handlers installed and is started,
\* unless sync, when no handler looks at it; a request for a registered call
\* has its handler run and, unless the handler suspends, its reply posted on
\* ch.
ServeAs(sync, ch, out) ==
    /\ ~Hung
    /\ ch \in DOMAIN chans
    /\ chans[ch].up /= <<>>
    /\ chans[ch].api /= Undef
    /\ ~chans[ch].closed /\ ~chans[ch].terminated
    /\ LET f == Head(chans[ch].up)
           pid == chans[ch].api
           c1 == [chans EXCEPT ![ch].up = Tail(@)]
       IN /\ (f.type = "call" /\ f.call = "echo") \/ out = DefaultOutcome
          /\ IF isMessageTarget(f) /\ ~sync
             THEN /\ chans' = handleAsyncIpc(c1, ch, f.port, pid)
                  /\ UNCHANGED <<calls, transfer>>
             ELSE IF f.type = "call" /\ f.call \in makeServer(buildAPI_table(pid)).handlers
             THEN LET r == Invoke(table, pid, f.call, f.args, out)
                      c2 == IF r.to = Undef THEN c1
                            ELSE PostDown(c1, r.to, [r.frame EXCEPT !.cid = f.cid])
                      rep == handleIpc(f.call, f, r.ret)
                  IN /\ chans' = IF r.ret.async THEN c2 ELSE PostFrames(c2, ch, rep)
                     /\ calls' = [calls EXCEPT
                                     ![f.cid].ret = r.ret,
                                     ![f.cid].replied = ~r.ret.async,
                                     ![f.cid].got = getTransfer(f.transfer),
                                     ![f.cid].posted =
                                         IF r.ret.async THEN @ ELSE @ + Len(rep)]
                     /\ transfer' = handleIpc_transfer(f, r.ret)
             ELSE /\ chans' = c1
                  /\ UNCHANGED <<calls, transfer>>
    /\ UNCHANGED <<props, table, idCounter, names, nameCallbacks, promises, last>>

\* The server the host makes in buildAPI: makeServer(proc.port, table).
Serve(ch, out) == ServeAs(FALSE, ch, out)
\* A server made by makeServer(port, table, true).
ServeSync(ch, out) == ServeAs(TRUE, ch, out)

\* The future a handler returned settles: handleIpc posts the reply on the
\* port the request came in on.
Complete(i) ==
    /\ ~Hung
    /\ i \in 1..Len(calls)
    /\ calls[i].ret.kind /= "none"
    /\ ~calls[i].replied
    /\ LET rep == handleIpc(calls[i].call,
                            CallFrame(calls[i].call, calls[i].args, i),
                            calls[i].ret)
       IN /\ chans' = PostFrames(chans, calls[i].ch, rep)
          /\ calls' = [calls EXCEPT ![i].replied = TRUE,
                                    ![i].posted = @ + Len(rep)]
    /\ UNCHANGED <<transfer, props, table, idCounter, names, nameCallbacks, promises, last>>

\* port.postMessage of the host: a MessagePort that was closed and a Worker
\* that was terminated discard what is posted on them.
postMessage(cs, ch, frames) ==
    IF Chan(cs, ch).closed \/ Chan(cs, ch).terminated THEN cs
    ELSE PostFrames(cs, ch, frames)

\* The next frame of port ch is a port offer and the host takes it.
ServeOffer(ch) ==
    /\ ch \in DOMAIN chans
    /\ chans[ch].up /= <<>>
    /\ isMessageTarget(Head(chans[ch].up))
    /\ Serve(ch, DefaultOutcome)

\* The next frame of port ch is a request for wait(name) and the host takes
\* it: the handler answers at once when the name is taken, and otherwise
\* awaits the promise of wait(), whose resolver joins nameCallbacks.
ServeWait(ch) ==
    /\ ~Hung
    /\ ch \in DOMAIN chans
    /\ chans[ch].up /= <<>>
    /\ chans[ch].api /= Undef
    /\ ~chans[ch].closed /\ ~chans[ch].terminated
    /\ LET f == Head(chans[ch].up)
           c1 == [chans EXCEPT ![ch].up = Tail(@)]
       IN /\ f.type = "call" /\ f.call = "wait"
          /\ LET r == wait(names, nameCallbacks, promises, f.args[1][2])
                 ret == IF r.res = "ok" THEN Outcome("return", Num(r.pid), FALSE)
                        ELSE Outcome("return", Undefined, TRUE)
                 rep == handleIpc("wait", f, ret)
             IN /\ nameCallbacks' = r.cbs
                /\ promises' = r.promises
                /\ chans' = IF ret.async THEN c1 ELSE PostFrames(c1, ch, rep)
                /\ calls' = [calls EXCEPT
                                ![f.cid].ret = ret,
                                ![f.cid].replied = ~ret.async,
                                ![f.cid].got = getTransfer(f.transfer),
                                ![f.cid].promise =
                                    IF ret.async THEN r.promise[1] ELSE 0,
                                ![f.cid].posted =
                                    IF ret.async THEN @ ELSE @ + Len(rep)]
                /\ transfer' = handleIpc_transfer(f, ret)
    /\ UNCHANGED <<props, table, idCounter, names, last>>

\* The promise of wait() that the handler of request i awaits was resolved
\* by name(): the handler goes on and posts {result} on the port the request
\* came in on.
CompleteWait(i) ==
    /\ ~Hung
    /\ i \in 1..Len(calls)
    /\ calls[i].promise /= 0
    /\ promises[calls[i].promise] /= Undef
    /\ ~calls[i].replied
    /\ LET rep == handleIpc("wait", CallFrame("wait", calls[i].args, i),
                            Outcome("return", Num(promises[calls[i].promise]), TRUE))
       IN /\ chans' = postMessage(chans, calls[i].ch, rep)
          /\ calls' = [calls EXCEPT ![i].replied = TRUE,
                                    ![i].posted = @ + Len(rep)]
    /\ UNCHANGED <<transfer, props, table, idCounter, names, nameCallbacks, promises, last>>

\* -------------------------------------------------------------- properties
\* {value: v}, and the same frame with an `error` field beside the value.
ValueFrame(v) == Frame("value", "", <<>>, v, 0, 0)
ValueErrorFrame(e, v) == Frame("value", "", <<Str(e)>>, v, 0, 0)
HasValue(f) == f.type = "value"
HasError(f) == f.type = "error" \/ (f.type = "value" /\ f.args /= <<>>)

\* The properties the server makes, the value each starts with, and the
\* value of its k-th assignment: a new one each time.
PropNames == <<"X", "Y">>
Initial == Str("i")
Assigned(k) == Num(k)
\* The keys of the server's table as help lists them: trackX and getX of
\* each property, a tracker without a getter, a property shadowed by a
\* function of its own name, and a plain function.
Funcs ==
    <<"trackX", "getX", "trackY", "getY", "trackZ", "trackW", "getW", "W", "echo">>
PropCandidates == {"X", "Y", "Z", "W", "echo"}

\* The tracker port getClient makes for property n of its client c.
Tracker(c, n) == <<c, n>>
NewPort == [down |-> <<>>, up |-> <<>>, sent |-> {}]

\* port.postMessage({ value }); sent is bookkeeping that no code reads.
postValue(ports, port, v) ==
    [ports EXCEPT ![port].down = Append(@, ValueFrame(v)),
                  ![port].sent = @ \cup {v}]

\* makeProperty: the closure of one property.
makeProperty(initial) == [value |-> initial, trackers |-> <<>>]

\* track${name}(port)
track(ps, n, port) ==
    [ps EXCEPT !.server[n].trackers = SetAdd(@, port),
               !.ports = postValue(@, port, ps.server[n].value)]

\* get${name}()
get(ps, n) == ps.server[n].value

\* trackers.forEach walking the Set from its newest member to its oldest.
RECURSIVE forEachTrackerBackwards(_, _, _)
forEachTrackerBackwards(ps, trackers, v) ==
    IF trackers = <<>> THEN ps
    ELSE LET port == trackers[Len(trackers)]
         IN forEachTrackerBackwards(
                [ps EXCEPT !.ports = postValue(@, port, v),
                           !.order = Append(@, port)],
                SubSeq(trackers, 1, Len(trackers) - 1), v)

\* trackers.forEach(p => p.postMessage({ value })): a Set is walked in the
\* order its members were added.  order is bookkeeping that no code reads:
\* the ports the last assignment posted on, in the order of the posts.
RECURSIVE forEachTracker(_, _, _)
forEachTracker(ps, trackers, v) ==
    IF trackers = <<>> THEN ps
    ELSE forEachTracker([ps EXCEPT !.ports = postValue(@, Head(trackers), v),
                                   !.order = Append(@, Head(trackers))],
                        Tail(trackers), v)

\* The setter of a property with no broadcast.
setSilently(ps, n, v) == [ps EXCEPT !.server[n].value = v]

\* The setter of the property: `table.X = v` on the server.
set(ps, n, v) ==
    forEachTracker([ps EXCEPT !.server[n].value = v, !.order = <<>>],
                   ps.server[n].trackers, v)

\* handleMessage of a tracker port: ev.source of a port's message event is
\* null, so the close branch throws at port.close() before trackers.delete;
\* every other frame throws 'Unrecognized message'. Nothing is posted and
\* the closure is left as it was.
handleMessage(ps, n, port, f) ==
    IF f.type = "close"
    THEN [ps |-> ps, thrown |-> Err("TypeError")]
    ELSE [ps |-> ps, thrown |-> Err("Unrecognized message")]

\* getClient's propNames: for each track<Name> of funcs, in order, the
\* <Name> that has a get<Name> and is not itself a key.
PropOf(f) ==
    IF \E n \in PropCandidates : f = "track" \o n
    THEN CHOOSE n \in PropCandidates : f = "track" \o n
    ELSE ""
propNames(funcs) ==
    LET tracked == SelectSeq(funcs, LAMBDA f : PropOf(f) /= "")
        mapped == [i \in 1..Len(tracked) |-> PropOf(tracked[i])]
    IN SelectSeq(mapped, LAMBDA n : SetHas(funcs, "get" \o n) /\ ~SetHas(funcs, n))

\* What getClient finds in the key list of the server.
Discovered == propNames(Funcs)

\* A getClient call: stage is "help" until the key list arrives, "tracking"
\* while the loop over propNames and its awaits run, "returned" at the end.
\* at counts the iterations begun, cache is propValue of each property,
\* got holds the properties whose getOneMessage promise has resolved.
NewClient(sync) ==
    [sync |-> sync, stage |-> "help", names |-> <<>>, at |-> 0,
     cache |-> EmptyMap, got |-> {}]

\* One iteration of the loop up to its await: a new channel, track() posted
\* with the foreign port, propValue not yet assigned.
iterate(ps, c) ==
    LET k == ps.clients[c].at + 1
        n == ps.clients[c].names[k]
    IN [ps EXCEPT !.clients[c].at = k,
                  !.clients[c].cache = MapSet(@, n, Undefined),
                  !.ports = MapSet(@, Tracker(c, n), NewPort),
                  !.requests = Append(@, Tracker(c, n))]

\* getClient returning as soon as every track call is posted.
awaitedNothing(cl) == cl.at = Len(cl.names)

\* The awaits of getClient are over: every iteration has run and every
\* getOneMessage(localPort) has resolved.
awaited(cl) == cl.at = Len(cl.names) /\ SetOf(cl.names) \subseteq cl.got

\* getClient from where it stands to its next await: sync awaits the first
\* message of each property before the next iteration, otherwise every
\* iteration runs and Promise.all awaits them together.
RECURSIVE resume(_, _)
resume(ps, c) ==
    LET cl == ps.clients[c]
    IN IF cl.stage /= "tracking" THEN ps
       ELSE IF awaited(cl) THEN [ps EXCEPT !.clients[c].stage = "returned"]
       ELSE IF cl.at < Len(cl.names)
               /\ (~cl.sync \/ cl.at = 0 \/ cl.names[cl.at] \in cl.got)
            THEN resume(iterate(ps, c), c)
            ELSE ps

\* localPort.onmessage: a frame with a value is stored; one with an error
\* makes the handler throw after that.
onmessage(cl, n, f) ==
    IF HasValue(f) THEN [cl EXCEPT !.cache[n] = f.val] ELSE cl

\* The server makes its properties.
MakeProperties ==
    /\ props.server = EmptyMap
    /\ props' = [props EXCEPT !.server =
                    [n \in SetOf(PropNames) |-> makeProperty(Initial)]]
    /\ UNCHANGED <<table, idCounter, names, nameCallbacks, promises, last, chans, calls, transfer>>

\* getClient(port, sync) up to `await ipc(port, "help")`.
GetClient(sync, max) ==
    /\ props.server /= EmptyMap
    /\ Len(props.clients) < max
    /\ props' = [props EXCEPT !.clients = Append(@, NewClient(sync))]
    /\ UNCHANGED <<table, idCounter, names, nameCallbacks, promises, last, chans, calls, transfer>>

\* The key list arrives: propNames is computed and the loop starts.
Discover(c) ==
    /\ c \in DOMAIN props.clients
    /\ props.clients[c].stage = "help"
    /\ props' = resume([props EXCEPT !.clients[c].stage = "tracking",
                                     !.clients[c].names = Discovered], c)
    /\ UNCHANGED <<table, idCounter, names, nameCallbacks, promises, last, chans, calls, transfer>>

\* The server takes the next track call: track${name}(port).
ServeTrack ==
    /\ props.requests /= <<>>
    /\ LET port == Head(props.requests)
       IN props' = [track(props, port[2], port) EXCEPT !.requests = Tail(@)]
    /\ UNCHANGED <<table, idCounter, names, nameCallbacks, promises, last, chans, calls, transfer>>

\* The server assigns the property: `table.X = v`.
Assign(n, max) ==
    /\ n \in DOMAIN props.server
    /\ props.writes < max
    /\ props' = [set(props, n, Assigned(props.writes + 1)) EXCEPT !.writes = @ + 1]
    /\ UNCHANGED <<table, idCounter, names, nameCallbacks, promises, last, chans, calls, transfer>>

\* The next frame of a tracker port reaches the client: onmessage, then the
\* once-listener of getOneMessage, then getClient from its await.
Deliver(c, n) ==
    /\ Tracker(c, n) \in DOMAIN props.ports
    /\ props.ports[Tracker(c, n)].down /= <<>>
    /\ LET f == Head(props.ports[Tracker(c, n)].down)
           m == getOneMessage(f)
       IN props' = resume(
              [props EXCEPT !.ports[Tracker(c, n)].down = Tail(@),
                            !.clients[c] = [onmessage(@, n, f) EXCEPT !.got =
                                IF m.state = "resolved" THEN @ \cup {n} ELSE @]],
              c)
    /\ UNCHANGED <<table, idCounter, names, nameCallbacks, promises, last, chans, calls, transfer>>

\* The holder of a tracker port posts {value: v} on it.
TrackerPost(c, n, v, max) ==
    /\ Tracker(c, n) \in DOMAIN props.ports
    /\ props.posts < max
    /\ props' = [props EXCEPT !.ports[Tracker(c, n)].up = Append(@, ValueFrame(v)),
                              !.posts = @ + 1]
    /\ UNCHANGED <<table, idCounter, names, nameCallbacks, promises, last, chans, calls, transfer>>

\* The page of client c unloads: the listeners tryReportClosing registered
\* post {channel: "close"} on every tracker port getClient has made for c.
\* max bounds the frames the holders post.
Unload(c, max) ==
    /\ c \in DOMAIN props.clients
    /\ props.posts < max
    /\ \E port \in DOMAIN props.ports : port[1] = c
    /\ props' = [props EXCEPT
                    !.ports = [port \in DOMAIN props.ports |->
                                  IF port[1] = c
                                  THEN [props.ports[port] EXCEPT
                                           !.up = Append(@, CloseFrame)]
                                  ELSE props.ports[port]],
                    !.posts = @ + 1]
    /\ UNCHANGED <<table, idCounter, names, nameCallbacks, promises, last, chans, calls, transfer>>

\* A frame a tracker posted reaches the server: handleMessage, listening
\* since track${name} started the port.
HandleMessage(c, n) ==
    /\ Tracker(c, n) \in DOMAIN props.ports
    /\ SetHas(props.server[n].trackers, Tracker(c, n))
    /\ props.ports[Tracker(c, n)].up /= <<>>
    /\ LET port == Tracker(c, n)
           r == handleMessage(props, n, port, Head(props.ports[port].up))
       IN props' = [r.ps EXCEPT !.ports[port].up = Tail(@)]
    /\ UNCHANGED <<table, idCounter, names, nameCallbacks, promises, last, chans, calls, transfer>>

\* A call of a handler that assigns a property (main.ts: setTitle doing
\* `api.Title = title`), made by a client that getClient has returned: the
\* request and its reply travel on the port of the call, not on a tracker
\* port.  seen is what the client reads as client.<Name> when the call
\* resolves.
NewRpc(c, n, v) ==
    [client |-> c, name |-> n, val |-> v, state |-> "called", seen |-> Undefined]

\* client.setTitle([v]): the k-th call passes the k-th value.
CallSetter(c, n, max) ==
    /\ c \in DOMAIN props.clients
    /\ props.clients[c].stage = "returned"
    /\ n \in DOMAIN props.clients[c].cache
    /\ Len(props.rpcs) < max
    /\ props' = [props EXCEPT !.rpcs =
                    Append(@, NewRpc(c, n, Assigned(Len(props.rpcs) + 1)))]
    /\ UNCHANGED <<table, idCounter, names, nameCallbacks, promises, last, chans, calls, transfer>>

\* The server runs the handler: the setter of the property posts {value}
\* to the trackers, then the handler returns and its reply is posted.
ServeSetter(i) ==
    /\ i \in DOMAIN props.rpcs
    /\ props.rpcs[i].state = "called"
    /\ props' = [set(props, props.rpcs[i].name, props.rpcs[i].val) EXCEPT
                    !.rpcs[i].state = "served", !.writes = @ + 1]
    /\ UNCHANGED <<table, idCounter, names, nameCallbacks, promises, last, chans, calls, transfer>>

\* The reply reaches the client and the promise of the call resolves.
ReceiveReply(i) ==
    /\ i \in DOMAIN props.rpcs
    /\ props.rpcs[i].state = "served"
    /\ LET r == props.rpcs[i]
       IN props' = [props EXCEPT !.rpcs[i].state = "resolved",
                                 !.rpcs[i].seen = props.clients[r.client].cache[r.name]]
    /\ UNCHANGED <<table, idCounter, names, nameCallbacks, promises, last, chans, calls, transfer>>

\* ---------------------------------------------------------- specifications
\* name, find and wait never read parent or children, and start, exit,
\* reparent, children, parent and isInSubtree never read the registry, so
\* the tree and the registry are explored by one specification each.

\* The process tree: the host's calls and the calls of the processes.
Next ==
    \/ \E par \in PidArgs : HostStart(par)
    \/ \E pid \in Pids : HostExit(pid)
    \/ \E pid \in Pids, par \in PidArgs : HostReparent(pid, par)
    \/ \E c \in Pids : ApiStart(c)
    \/ \E c \in Pids, arg \in PidArgs : ApiExit(c, arg)
    \/ \E c \in Pids, arg \in PidArgs : ApiChildren(c, arg)
    \/ \E c \in Pids, arg \in PidArgs : ApiParent(c, arg)
    \/ \E c \in Pids, process \in Pids, arg \in PidArgs : ApiReparent(c, process, arg)

Spec == Init /\ [][Next]_vars

NamedPids == 1..MaxNamed
NamedStart(par) == idCounter < MaxNamed /\ HostStart(par)

\* The registry: processes come and go, take names, are looked up and waited for.
NextNames ==
    \/ \E par \in NamedPids \cup {Undef} : NamedStart(par)
    \/ \E pid \in NamedPids : HostExit(pid)
    \/ \E pid \in NamedPids, options \in Options : HostName(pid, options)
    \/ \E options \in Options : HostFind(options)
    \/ \E n \in Names : HostWait(n)

SpecNames == Init /\ [][NextNames]_vars

\* The names waited for in the specification of the waiters.
WaitNames == {"a", "b"}
TakeName(pid, n) == HostName(pid, <<n>>)
QueueWait(n) == WaitCall(n, MaxWaiters)

\* The waiters: processes come and go and take one name at a time while the
\* host and the processes wait for names.
NextWaits ==
    \/ \E par \in NamedPids \cup {Undef} : NamedStart(par)
    \/ \E pid \in NamedPids : HostExit(pid)
    \/ \E pid \in NamedPids, n \in WaitNames : TakeName(pid, n)
    \/ \E n \in WaitNames : QueueWait(n)

SpecWaits == Init /\ [][NextWaits]_vars

\* Lifetimes: processes are started and exited by the host and by the
\* processes themselves, and moved by the host.
NextLife ==
    \/ \E par \in PidArgs : HostStart(par)
    \/ \E c \in Pids : ApiStart(c)
    \/ \E pid \in Pids : HostExit(pid)
    \/ \E c \in Pids, arg \in PidArgs : ApiExit(c, arg)
    \/ \E pid \in Pids, par \in PidArgs : HostReparent(pid, par)

SpecLife == Init /\ [][NextLife]_vars

\* Starting with collaborators that may throw: the host starts processes
\* under any parent, and exits them.
NextStart ==
    \/ \E par \in PidArgs, fail \in Fails : HostStartVia(par, fail)
    \/ \E c \in Pids, fail \in Fails : ApiStartVia(c, fail)
    \/ \E pid \in Pids : HostExit(pid)

SpecStart == Init /\ [][NextStart]_vars

\* The tree as the host's start and exit and the calls of the processes
\* shape it: the host's own reparent is left out.
NextApiTree ==
    \/ \E par \in PidArgs : HostStart(par)
    \/ \E pid \in Pids : HostExit(pid)
    \/ \E c \in Pids : ApiStart(c)
    \/ \E c \in Pids, arg \in PidArgs : ApiExit(c, arg)
    \/ \E c \in Pids, arg \in PidArgs : ApiChildren(c, arg)
    \/ \E c \in Pids, arg \in PidArgs : ApiParent(c, arg)
    \/ \E c \in Pids, process \in Pids, arg \in PidArgs : ApiReparent(c, process, arg)

SpecApiTree == Init /\ [][NextApiTree]_vars

\* One process is started; it is the one connection of the concurrent calls.
AsyncStart == idCounter = 0 /\ HostStart(Undef)
AsyncRequests == {<<"getPid", <<>>>>, <<"echo", <<>>>>}
AsyncChannels == {1} \cup {0 - k : k \in 1..MaxAsync}

\* Concurrent sub-channel calls over the root port of one process: requests
\* are served, handlers complete and frames are delivered in any order.
NextAsync ==
    \/ AsyncStart
    \/ \E r \in AsyncRequests : AsyncIpcCall(1, r[1], r[2], MaxAsync)
    \/ \E ch \in AsyncChannels, out \in Outcomes : Serve(ch, out)
    \/ \E i \in 1..MaxAsync : Complete(i)
    \/ \E ch \in AsyncChannels : Receive(ch)
    \/ \E ch \in AsyncChannels : PostClose(ch)

SpecAsync == Init /\ [][NextAsync]_vars

\* The calls and the channels of the specification of the server.
ServeRequests == {<<"help", <<>>>>, <<"echo", <<>>>>, <<"version", <<>>>>}
ServeChannels == {1} \cup {0 - k : k \in 1..MaxServed}

\* The server of one process: it is sent requests for registered and for
\* unregistered names, in-band and over sub-channels, and frames that are
\* no requests.
NextServe ==
    \/ AsyncStart
    \/ \E r \in ServeRequests : IpcCall(1, r[1], r[2], MaxServed)
    \/ \E r \in ServeRequests : AsyncIpcCall(1, r[1], r[2], MaxServed)
    \/ PostRaw(1, Str("d"))
    \/ \E ch \in ServeChannels, out \in Outcomes : Serve(ch, out)
    \/ \E i \in 1..MaxServed : Complete(i)
    \/ \E ch \in ServeChannels : Receive(ch)

SpecServe == Init /\ [][NextServe]_vars

\* The lists of transferables the requests of one process come with.
TransferLists == {<<>>, <<"a">>, <<"b">>}

\* Requests with transfer lists: one process calls a handler of the host's,
\* which returns, suspends or throws, and takes its replies.
NextTransfer ==
    \/ AsyncStart
    \/ \E list \in TransferLists : IpcCallWith(1, "echo", <<>>, list, MaxTransfers)
    \/ \E out \in Outcomes : Serve(1, out)
    \/ \E i \in 1..MaxTransfers : Complete(i)
    \/ Receive(1)

SpecTransfer == Init /\ [][NextTransfer]_vars

\* The ports of the specification of the two modes, and the processes whose
\* port has a server made with sync = true in place of the host's.
ModePids == {1, 2}
ModeStart == idCounter < 2 /\ HostStart(Undef)
ModeChannels == ModePids \cup {0 - k : k \in 1..(2 * MaxModes)}
SyncServed(p) == p % 2 = 0

ServeOdd(ch) == ~SyncServed(Chan(chans, ch).peer) /\ Serve(ch, DefaultOutcome)
ServeEven(ch) == SyncServed(Chan(chans, ch).peer) /\ ServeSync(ch, DefaultOutcome)

\* The two modes of makeServer: two processes make sub-channels of their
\* ports, at any depth, and call over them; the server of the odd port is
\* made with sync = false, that of the even port with sync = true.
NextModes ==
    \/ ModeStart
    \/ \E p \in ModePids, over \in ModeChannels : GetSubChannel(p, over, MaxModes)
    \/ \E p \in ModePids, over \in ModeChannels :
           AsyncIpcOver(p, over, "echo", <<>>, MaxModes)
    \/ \E ch \in ModeChannels : ServeOdd(ch)
    \/ \E ch \in ModeChannels : ServeEven(ch)
    \/ \E ch \in ModeChannels : Receive(ch)

SpecModes == Init /\ [][NextModes]_vars

\* Calls that outlive their caller: two processes wait for the name "a" in
\* band and over sub-channels, are exited by the host, and take the name.
NextLate ==
    \/ ModeStart
    \/ \E p \in ModePids : IpcCall(p, "wait", <<Str("a")>>, MaxLate)
    \/ \E p \in ModePids : AsyncIpcCall(p, "wait", <<Str("a")>>, MaxLate)
    \/ \E ch \in ModeChannels : ServeOffer(ch)
    \/ \E ch \in ModeChannels : ServeWait(ch)
    \/ \E i \in 1..MaxLate : CompleteWait(i)
    \/ \E ch \in ModeChannels : Receive(ch)
    \/ \E pid \in ModePids : HostExit(pid)
    \/ \E pid \in ModePids : TakeName(pid, "a")

SpecLate == Init /\ [][NextLate]_vars

\* The ports of the specification of the tear-down.
TornChannels == {1} \cup {0 - k : k \in 1..(2 * MaxTorn)}

\* Tear-down: a process makes sub-channels of its root port and of its
\* sub-channels, calls over any of them and in-band, and is exited, which
\* calls the cancel closure of its server, at any moment.
NextCancel ==
    \/ AsyncStart
    \/ \E over \in TornChannels : GetSubChannel(1, over, MaxTorn)
    \/ \E over \in TornChannels : AsyncIpcOver(1, over, "echo", <<>>, MaxTorn)
    \/ IpcCall(1, "echo", <<>>, MaxTorn)
    \/ \E ch \in TornChannels : Serve(ch, DefaultOutcome)
    \/ \E ch \in TornChannels : Receive(ch)
    \/ HostExit(1)

SpecCancel == Init /\ [][NextCancel]_vars

\* The object processHost returns: every operation of the host, called with
\* live and with absent PIDs.
NextHost ==
    \/ \E par \in NamedPids \cup {Undef} : NamedStart(par)
    \/ \E pid \in NamedPids : HostExit(pid)
    \/ \E pid \in NamedPids, par \in NamedPids \cup {Undef} : HostReparent(pid, par)
    \/ \E pid \in NamedPids \cup {Undef} : HostChildren(pid)
    \/ \E pid \in NamedPids : HostParent(pid)
    \/ \E pid \in NamedPids : TakeName(pid, "a")
    \/ WaitCall("a", MaxHostWaits)
    \/ \E pid \in NamedPids : SendTo(pid, Str("d"))

SpecHost == Init /\ [][NextHost]_vars

\* The requests the processes make in the specification of the transport.
Requests ==
    {<<"getPid", <<>>>>, <<"help", <<>>>>, <<"echo", <<>>>>, <<"version", <<>>>>}
    \cup {<<"send", <<Num(t), Str("d")>>>> : t \in NamedPids}
Channels == NamedPids \cup {0 - k : k \in 1..MaxCalls}

\* The processes are started before the first call is made.
IpcStart == calls = <<>> /\ NamedStart(Undef)

\* The transport: processes are started and call the host's server in-band
\* and over sub-channels; frames are delivered one at a time.
NextIpc ==
    \/ IpcStart
    \/ \E p \in NamedPids, r \in Requests : Ipc(p, r[1], r[2])
    \/ \E p \in NamedPids, r \in Requests : AsyncIpc(p, r[1], r[2])
    \/ \E p \in NamedPids : GetOneMessage(p)
    \/ \E ch \in Channels, out \in Outcomes : Serve(ch, out)
    \/ \E i \in 1..MaxCalls : Complete(i)
    \/ \E ch \in Channels : Receive(ch)
    \/ \E ch \in Channels : PostClose(ch)
    \/ \E p \in NamedPids : HostSend(p, Str("d"))

SpecIpc == Init /\ [][NextIpc]_vars

\* The properties: the server makes and assigns them, and clients are built
\* by getClient in both modes.
NextProps ==
    \/ MakeProperties
    \/ \E sync \in BOOLEAN : GetClient(sync, MaxClients)
    \/ \E c \in 1..MaxClients : Discover(c)
    \/ ServeTrack
    \/ \E n \in SetOf(PropNames) : Assign(n, MaxWrites)
    \/ \E c \in 1..MaxClients, n \in SetOf(PropNames) : Deliver(c, n)

SpecProps == Init /\ [][NextProps]_vars

\* The frames of the tracker ports: two clients subscribe while the server
\* assigns its properties several times.
Subscribers == {1, 2}
NextFrames ==
    \/ MakeProperties
    \/ \E sync \in BOOLEAN : GetClient(sync, Cardinality(Subscribers))
    \/ \E c \in Subscribers : Discover(c)
    \/ ServeTrack
    \/ \E n \in SetOf(PropNames) : Assign(n, MaxAssigns)
    \/ \E c \in Subscribers, n \in SetOf(PropNames) : Deliver(c, n)

SpecFrames == Init /\ [][NextFrames]_vars

\* The event loop runs the tasks that are queued: a frame posted on a port
\* is delivered, a track call that was posted is taken.
EventLoop ==
    \/ ServeTrack
    \/ \E c \in 1..MaxHolders : Discover(c)
    \/ \E c \in 1..MaxHolders, n \in SetOf(PropNames) : Deliver(c, n)
FairDelivery == WF_vars(EventLoop)

\* The properties under an event loop that keeps running.
NextConverge ==
    \/ MakeProperties
    \/ \E sync \in BOOLEAN : GetClient(sync, MaxHolders)
    \/ \E n \in SetOf(PropNames) : Assign(n, MaxAssigns)
    \/ EventLoop

SpecConverge == Init /\ [][NextConverge]_vars /\ FairDelivery

\* Clients that call a handler which assigns a property they track.
NextSetter ==
    \/ MakeProperties
    \/ \E sync \in BOOLEAN : GetClient(sync, MaxHolders)
    \/ \E c \in 1..MaxHolders : Discover(c)
    \/ ServeTrack
    \/ \E c \in 1..MaxHolders, n \in SetOf(PropNames) : Deliver(c, n)
    \/ \E c \in 1..MaxHolders, n \in SetOf(PropNames) : CallSetter(c, n, MaxSetCalls)
    \/ \E i \in 1..MaxSetCalls : ServeSetter(i)
    \/ \E i \in 1..MaxSetCalls : ReceiveReply(i)

SpecSetter == Init /\ [][NextSetter]_vars

\* The tracker ports in both directions: the holders of tracker ports post
\* frames of their own to the server.
NextTrackers ==
    \/ MakeProperties
    \/ \E sync \in BOOLEAN : GetClient(sync, MaxHolders)
    \/ \E c \in 1..MaxHolders : Discover(c)
    \/ ServeTrack
    \/ \E n \in SetOf(PropNames) : Assign(n, MaxWrites)
    \/ \E c \in 1..MaxHolders, n \in SetOf(PropNames) : Deliver(c, n)
    \/ \E c \in 1..MaxHolders, n \in SetOf(PropNames) :
           TrackerPost(c, n, Str("u"), MaxPosts)
    \/ \E c \in 1..MaxHolders, n \in SetOf(PropNames) : HandleMessage(c, n)

SpecTrackers == Init /\ [][NextTrackers]_vars

\* Unsubscribing: two clients track the properties, the page of one unloads
\* and the server goes on assigning.
NextUnload ==
    \/ MakeProperties
    \/ \E sync \in BOOLEAN : GetClient(sync, Cardinality(Subscribers))
    \/ \E c \in Subscribers : Discover(c)
    \/ ServeTrack
    \/ \E n \in SetOf(PropNames) : Assign(n, MaxWrites)
    \/ \E c \in Subscribers, n \in SetOf(PropNames) : Deliver(c, n)
    \/ \E c \in Subscribers : Unload(c, MaxPosts)
    \/ \E c \in Subscribers, n \in SetOf(PropNames) : HandleMessage(c, n)

SpecUnload == Init /\ [][NextUnload]_vars

\* ------------------------------------------------- relations on the table
\* The PIDs met by following parent pointers from p, one step or more.
RECURSIVE AncestorsFrom(_, _, _)
AncestorsFrom(t, p, acc) ==
    LET par == IF p \in DOMAIN t THEN t[p].parent ELSE Undef
    IN IF par = Undef \/ par \in acc THEN acc
       ELSE AncestorsFrom(t, par, acc \cup {par})

Ancestors(t, p) == AncestorsFrom(t, p, {})
Descendants(t, p) == {q \in DOMAIN t : p \in Ancestors(t, q)}
Subtree(t, p) == {p} \cup Descendants(t, p)
\* p is root or a descendant of root.
Under(t, p, root) == p = root \/ root \in Ancestors(t, p)
OnCycle(t, p) == p \in Ancestors(t, p)
\* Every parent chain ends, after finitely many steps, at a live root.
Forest(t) ==
    \A p \in DOMAIN t : ~OnCycle(t, p) /\ Ancestors(t, p) \subseteq DOMAIN t

HostCall(op) == last.op = op /\ last.caller = Undef
ApiCall(op) == last.op = op /\ last.caller /= Undef

\* ------------------------------------------------------------------ claims

C2_Acyclic == Forest(table)

\* C2 amended: start, exit and the reparent call of the API server keep the
\* parent relation acyclic; only the host's own reparent, which makes no
\* check, can close a cycle.
C2_ApiKeepsForest ==
    [][(/\ table' /= table
        /\ ~(last'.op = "reparent" /\ last'.caller = Undef)
        /\ Forest(table))
        => Forest(table')]_vars

\* A process has moved a descendant, and the table is still a forest with
\* a chain of three.
C2_Witness ==
    /\ ApiCall("reparent") /\ last.res = "ok"
    /\ Forest(table)
    /\ \E p \in DOMAIN table : Cardinality(Ancestors(table, p)) = 2

\* C3 as stated: exit(p) on a live PID p removes from the table exactly p
\* and p's transitive descendants, and no remaining children set contains
\* a removed PID.
C3_ExitRemovesSubtree ==
    [][(last'.op = "exit" /\ last'.caller = Undef /\ last'.a \in DOMAIN table)
        => /\ DOMAIN table' = DOMAIN table \ Subtree(table, last'.a)
           /\ \A q \in DOMAIN table' :
                 SetOf(table'[q].children) \cap Subtree(table, last'.a) = {}]_vars

\* C3 amended: exit(p) on a live PID p that is not on a parent cycle returns
\* and has removed exactly p and p's transitive descendants, and no
\* remaining children set contains a removed PID.
C3_ExitRemovesTree ==
    [][(/\ last'.op = "exit" /\ last'.caller = Undef
        /\ last'.a \in DOMAIN table
        /\ ~OnCycle(table, last'.a))
        => /\ last'.res = "ok"
           /\ DOMAIN table' = DOMAIN table \ Subtree(table, last'.a)
           /\ \A q \in DOMAIN table' :
                 SetOf(table'[q].children) \cap Subtree(table, last'.a) = {}]_vars

\* exit has removed a process together with a descendant, its parent stays.
C3_Witness ==
    /\ HostCall("exit") /\ last.res = "ok"
    /\ Cardinality(last.live \ DOMAIN table) >= 2
    /\ DOMAIN table /= {}
    /\ \A p \in DOMAIN table : table[p].children = <<>>

\* The target of an API call with an optional first argument.
ApiTarget(call) == IF call.a = Undef THEN call.caller ELSE call.a

\* C4 as stated: the exit call of process c with a target in c's subtree
\* removes exactly the target and the target's transitive descendants, so
\* c stays unless it is the target (stated for tables that are forests).
C4_ApiExitRemovesTarget ==
    [][(/\ last'.op = "exit" /\ last'.caller /= Undef
        /\ Forest(table)
        /\ ApiTarget(last') \in DOMAIN table
        /\ Under(table, ApiTarget(last'), last'.caller))
        => DOMAIN table' = DOMAIN table \ Subtree(table, ApiTarget(last'))]_vars

\* The parent chain of p is finite: isInSubtree(p, _) comes to an end.
ChainEnds(t, p) == \A q \in {p} \cup Ancestors(t, p) : ~OnCycle(t, q)

TreeCalls == {"exit", "children", "parent", "reparent"}

\* C5 as stated: exit, children, parent and reparent issued by c on a live
\* target that is neither c nor a descendant of c return the not-descendant
\* error and leave the table and the registry unchanged.
C5_NotDescendant ==
    [][(/\ last'.op \in TreeCalls /\ last'.caller /= Undef
        /\ last'.a \in DOMAIN table
        /\ ~Under(table, last'.a, last'.caller))
        => /\ last'.res = "NotDescendant"
           /\ table' = table /\ names' = names]_vars

\* C5 amended: the same, for a target whose parent chain is finite (always
\* so unless the host's own reparent has closed a cycle above the target).
C5_NotDescendantOnChain ==
    [][(/\ last'.op \in TreeCalls /\ last'.caller /= Undef
        /\ last'.a \in DOMAIN table
        /\ ~Under(table, last'.a, last'.caller)
        /\ ChainEnds(table, last'.a))
        => /\ last'.res = "NotDescendant"
           /\ table' = table /\ names' = names]_vars

\* With 1 -> 2 -> 3, process 2 has called exit(1) and got the error.
C5_Witness ==
    /\ ApiCall("exit") /\ last.res = "NotDescendant"
    /\ last.caller \in DOMAIN table /\ last.a \in DOMAIN table
    /\ table[last.caller].parent = last.a
    /\ table[last.caller].children /= <<>>

\* The new parent of the reparent call: the caller when omitted.
NewParent(call) == IF call.b = Undef THEN call.caller ELSE call.b

\* C6 as stated: the reparent call fails with the topology-violation error
\* and leaves the table unchanged whenever newParent is target itself or a
\* descendant of target (both live, the table a forest).
C6_TopologyError ==
    [][(/\ last'.op = "reparent" /\ last'.caller /= Undef
        /\ last'.a \in DOMAIN table
        /\ NewParent(last') \in DOMAIN table
        /\ Under(table, NewParent(last'), last'.a)
        /\ Forest(table))
        => last'.res = "Topology" /\ table' = table]_vars

\* C6 amended: issued by a process whose subtree contains target, the
\* reparent call fails with the topology-violation error and leaves the
\* table unchanged whenever newParent is target itself or a descendant of
\* target; no reparent call turns a forest into a table with a cycle.
C6_TopologyErrorInSubtree ==
    [][/\ (/\ last'.op = "reparent" /\ last'.caller /= Undef
           /\ last'.a \in DOMAIN table
           /\ NewParent(last') \in DOMAIN table
           /\ Under(table, last'.a, last'.caller)
           /\ Under(table, NewParent(last'), last'.a))
          => last'.res = "Topology" /\ table' = table
       /\ (/\ last'.op = "reparent" /\ last'.caller /= Undef
           /\ table' /= table
           /\ Forest(table))
          => Forest(table')]_vars

\* Process c has asked to put its child under its grandchild and was refused.
C6_Witness ==
    /\ ApiCall("reparent") /\ last.res = "Topology"
    /\ last.a \in DOMAIN table /\ last.b \in DOMAIN table
    /\ table[last.a].parent = last.caller
    /\ table[last.b].parent = last.a

\* C7 as stated: the reparent call of process c succeeds only when target is
\* a proper descendant of c (stated for tables that are forests).
C7_ReparentOnlyDescendants ==
    [][(/\ last'.op = "reparent" /\ last'.caller /= Undef
        /\ last'.res = "ok"
        /\ Forest(table))
        => last'.a \in Descendants(table, last'.caller)]_vars

\* C8: name uniqueness.  After name(p, options) has returned x, find([x])
\* returns [x, p]; no two live processes carry the same name; and a name()
\* call of a process never returns a name that another process holds.
C8_NameUnique ==
    /\ []((last.op = "name" /\ last.res = "ok")
          => find(names, <<last.nm>>) = [res |-> "ok", nm |-> last.nm, pid |-> last.a])
    /\ [](\A p, q \in DOMAIN table :
             (p /= q /\ table[p].name /= NoName) => table[p].name /= table[q].name)
    /\ [][(last'.op = "name" /\ last'.res = "ok")
          => /\ ~\E p \in DOMAIN table \ {last'.a} : table[p].name = last'.nm
             /\ last'.nm \in DOMAIN names => names[last'.nm] = last'.a]_vars

\* A process has asked for the name a live process holds and has not been
\* given it, and find returns the holder.
C8_Witness ==
    /\ HostCall("name") /\ last.res = "false"
    /\ last.a \in DOMAIN table
    /\ find(names, last.opts).res = "ok"
    /\ \E p \in DOMAIN table \ {last.a} :
          /\ TruthyName(table[p].name)
          /\ SetHas(last.opts, table[p].name)
          /\ names[table[p].name] = p

\* C9 as stated: every registry entry n -> p (n a non-empty string) refers
\* to a PID p that is in the table and whose name field is n.
C9_RegistryConsistent ==
    \A n \in DOMAIN names \ {""} :
       names[n] \in DOMAIN table /\ table[names[n]].name = n

\* C10 as stated: after exit(p), for every name n held by a removed
\* process, find([n]) returns false, wait(n) does not return a removed PID
\* and name(q, [n]) of a live process q succeeds.
C10_ReleasedOnExit ==
    [][(last'.op = "exit" /\ last'.caller = Undef /\ last'.res = "ok")
        => \A p \in DOMAIN table \ DOMAIN table' :
              TruthyName(table[p].name) =>
                 /\ find(names', <<table[p].name>>).res = "false"
                 /\ wait(names', nameCallbacks', promises', table[p].name).pid
                       \notin (DOMAIN table \ DOMAIN table')
                 /\ \A q \in DOMAIN table' :
                       name(table', names', nameCallbacks', promises', q,
                            <<table[p].name>>).res = "ok"]_vars

\* C11 as stated: when every option passed to name(pid, options), each a
\* non-empty string, is held by a process other than pid, the call returns
\* false and pid retains its prior name: the registry and pid's name field
\* are unchanged and find([prior]) still returns [prior, pid].
C11_PriorNameRetained ==
    [][(/\ last'.op = "name" /\ last'.caller = Undef
        /\ last'.a \in DOMAIN table
        /\ Len(last'.opts) > 0
        /\ \A i \in 1..Len(last'.opts) :
              /\ last'.opts[i] /= ""
              /\ last'.opts[i] \in DOMAIN names
              /\ last'.opts[i] /= table[last'.a].name)
        => /\ last'.res = "false"
           /\ names' = names
           /\ table'[last'.a].name = table[last'.a].name
           /\ TruthyName(table[last'.a].name) =>
                 find(names', <<table[last'.a].name>>) =
                    [res |-> "ok", nm |-> table[last'.a].name, pid |-> last'.a]]_vars

\* C12 as stated: a successful name(pid, options) returns the first option
\* that no process held when the call was made and registers it to pid, a
\* call with such an option succeeds, and afterwards at most one registry
\* entry (names being non-empty strings) maps to pid.
C12_FirstUnclaimed ==
    [][(last'.op = "name" /\ last'.caller = Undef /\ last'.a \in DOMAIN table)
        => LET free == {i \in 1..Len(last'.opts) : last'.opts[i] \notin DOMAIN names}
           IN /\ (free /= {}) <=> (last'.res = "ok")
              /\ last'.res = "ok" =>
                    /\ \E i \in free :
                          /\ last'.nm = last'.opts[i]
                          /\ \A j \in free : i <= j
                    /\ names'[last'.nm] = last'.a
                    /\ Cardinality({n \in DOMAIN names' \ {""} :
                                       names'[n] = last'.a}) <= 1]_vars

\* The live processes whose name field is n.
Holders(t, n) == {p \in DOMAIN t : t[p].name = n}
\* The promises of the resolvers queued for n that are still pending.
Pending(cbs, prom, n) ==
    IF n \in DOMAIN cbs THEN {id \in SetOf(cbs[n]) : prom[id] = Undef} ELSE {}

\* C13 as stated: wait(n) returns the holder's PID synchronously when some
\* process holds n and a pending future otherwise; a pending future stays
\* pending until the next successful name() call that takes n, and that
\* call resolves every future pending on n with the PID of its process.
C13_WaitResolvedByName ==
    [][/\ last'.op = "wait" =>
             IF Holders(table, last'.opts[1]) /= {}
             THEN last'.res = "ok" /\ last'.pid \in Holders(table, last'.opts[1])
             ELSE /\ last'.res = "promise"
                  /\ promises'[last'.list[1]] = Undef
                  /\ last'.list[1] \in Pending(nameCallbacks', promises', last'.opts[1])
       /\ \A n \in DOMAIN nameCallbacks : \A id \in Pending(nameCallbacks, promises, n) :
             promises'[id] = IF last'.op = "name" /\ last'.res = "ok" /\ last'.nm = n
                             THEN last'.a ELSE Undef]_vars

\* C14 as stated: after a name() call has taken n the list of pending
\* resolvers of n is empty, and the call invokes no resolver that was
\* invoked before (one whose promise is already settled).
C14_ResolverRemoved ==
    [][(last'.op = "name" /\ last'.res = "ok" /\ last'.nm \in DOMAIN nameCallbacks)
        => /\ nameCallbacks'[last'.nm] = <<>>
           /\ \A id \in SetOf(nameCallbacks[last'.nm]) : promises[id] = Undef]_vars

\* C15: PID freshness.  Every successful start, the host's or a process's,
\* returns a positive PID that was not in the table when it was allocated,
\* adds exactly that row and leaves the parent and the name of every row
\* that was there as they were, so an occupied PID is never handed out.
C15_FreshPid ==
    [][(last'.op = "start" /\ last'.res = "ok")
        => /\ last'.pid > 0
           /\ last'.pid \notin DOMAIN table
           /\ DOMAIN table' = DOMAIN table \cup {last'.pid}
           /\ \A p \in DOMAIN table :
                 /\ table'[p].parent = table[p].parent
                 /\ table'[p].name = table[p].name]_vars

\* A process has started a child after an earlier process has exited, two
\* others being live.
C15_Witness ==
    /\ ApiCall("start") /\ last.res = "ok"
    /\ last.pid \in DOMAIN table
    /\ table[last.pid].parent = last.caller
    /\ Cardinality(DOMAIN table) >= 2
    /\ Cardinality(DOMAIN table) < idCounter

\* The calls made with ipc or asyncIpc, and those among them that are settled.
Rpcs == {i \in 1..Len(calls) : calls[i].mode \in {"ipc", "asyncIpc"}}
Settled == {i \in Rpcs : calls[i].state /= "waiting"}
\* The frames on their way to the peers, with the port each is on.
Downs == UNION {{<<ch, k>> : k \in 1..Len(chans[ch].down)} : ch \in DOMAIN chans}

\* C16: caller identity binding.  The handlers that listen on the root port
\* of process p, and on every sub-channel offered over it, are those built
\* for p; getPid answers p to the process that made the call; and every
\* frame a send call posts is [p, data], p the process that made the call,
\* on the port of the target that call named.
C16_CallerIdentity ==
    /\ \A ch \in DOMAIN chans : chans[ch].api \in {Undef, chans[ch].peer}
    /\ \A i \in Rpcs :
          (calls[i].call = "getPid" /\ calls[i].ret.kind /= "none")
             => calls[i].ret = Outcome("return", Num(calls[i].proc), FALSE)
    /\ \A d \in Downs :
          LET f == chans[d[1]].down[d[2]]
          IN f.type = "data" =>
                /\ f.cid \in Rpcs /\ calls[f.cid].call = "send"
                /\ f.args = <<Num(calls[f.cid].proc), calls[f.cid].args[2]>>
                /\ d[1] = PidOf(calls[f.cid].args[1])

\* A process has sent to another process over a sub-channel and the frame
\* is on its way to the target.
C16_Witness ==
    \E d \in Downs :
       LET f == chans[d[1]].down[d[2]]
       IN /\ f.type = "data"
          /\ calls[f.cid].mode = "asyncIpc"
          /\ calls[f.cid].proc /= d[1]
          /\ chans[calls[f.cid].ch].api = calls[f.cid].proc

\* C17 as stated: when the handler of a call returns v, at once or through a
\* future, the caller's promise, once settled otherwise than by the close
\* frame, is resolved with exactly v, for ipc and for asyncIpc.
C17_RoundTrip ==
    \A i \in Settled :
       (calls[i].ret.kind = "return" /\ calls[i].reply.type /= "close")
          => calls[i].state = "resolved" /\ calls[i].val = calls[i].ret.val

\* C17 amended: when the handler of a call returns v and the first frame the
\* caller receives on the port after its request is the reply to that
\* request, the caller's promise resolves with exactly v; on the sub-channel
\* of asyncIpc that first frame is always the reply or the close frame.
C17_RoundTripOwnReply ==
    /\ \A i \in Settled :
          (calls[i].ret.kind = "return" /\ calls[i].reply.cid = i)
             => calls[i].state = "resolved" /\ calls[i].val = calls[i].ret.val
    /\ \A i \in Settled :
          calls[i].mode = "asyncIpc"
             => calls[i].reply.cid = i \/ calls[i].reply.type = "close"

\* A sub-channel call whose handler returned "x" through a future has
\* resolved with "x".
C17_Witness ==
    \E i \in Settled :
       /\ calls[i].mode = "asyncIpc"
       /\ calls[i].ret = Outcome("return", Str("x"), TRUE)
       /\ calls[i].state = "resolved" /\ calls[i].val = Str("x")

\* C18 as stated: when the handler of a call fails with e, thrown or through
\* a rejected future, the server posts {error: e} and the caller's promise,
\* settled by that reply, is rejected with e and not resolved.
C18_FailureRejects ==
    \A i \in Settled :
       (calls[i].ret.kind = "throw" /\ calls[i].reply.cid = i)
          => /\ calls[i].reply = ErrorFrame(calls[i].ret.val, i)
             /\ calls[i].state = "rejected" /\ calls[i].val = calls[i].ret.val

\* The keys of the object given to makeServer whose value is callable.
Callable(tbl) == {tbl[k][1] : k \in {j \in 1..Len(tbl) : tbl[j][2] = "function"}}

\* C19: the list the help call of a server returns has exactly the callable
\* keys of the object the server was made from, every name in it has a
\* handler registered, and a caller settled by that reply resolves with it.
C19_HelpListsCallables ==
    \A i \in Rpcs :
       (calls[i].call = "help" /\ calls[i].ret.kind /= "none")
          => LET tbl == buildAPI_table(chans[calls[i].ch].api)
                 listed == SetOf(Tail(calls[i].ret.val))
             IN /\ calls[i].ret.kind = "return"
                /\ Head(calls[i].ret.val) = "array"
                /\ listed = Callable(tbl)
                /\ listed \subseteq makeServer(tbl).handlers
                /\ (calls[i].state /= "waiting" /\ calls[i].reply.cid = i)
                      => calls[i].state = "resolved" /\ calls[i].val = calls[i].ret.val

\* A help call made over a sub-channel has resolved with a list that has
\* getPid and echo but not the key of the plain string.
C19_Witness ==
    \E i \in Settled :
       /\ calls[i].call = "help" /\ calls[i].mode = "asyncIpc"
       /\ calls[i].state = "resolved"
       /\ {"getPid", "echo"} \subseteq SetOf(Tail(calls[i].val))
       /\ "version" \notin SetOf(Tail(calls[i].val))

\* C20: premature close.  When the frame that settles a pending
\* getOneMessage, ipc or asyncIpc promise is {channel: "close"}, the promise
\* is rejected with channel-closed-prematurely, and a promise rejected so is
\* never resolved afterwards.
C20_PrematureClose ==
    [][\A i \in 1..Len(calls) :
          /\ (/\ calls[i].state = "waiting"
              /\ calls'[i].state /= "waiting"
              /\ Head(chans[calls[i].ch].down).type = "close")
             => /\ calls'[i].state = "rejected"
                /\ calls'[i].val = ClosedPrematurely
          /\ (calls[i].state = "rejected" /\ calls[i].val = ClosedPrematurely)
             => /\ calls'[i].state = "rejected"
                /\ calls'[i].val = ClosedPrematurely]_vars

\* The close frame has arrived on the sub-channel of a call whose handler
\* was running and had not replied yet.
C20_Witness ==
    \E i \in Settled :
       /\ calls[i].mode = "asyncIpc"
       /\ calls[i].ret.kind /= "none" /\ ~calls[i].replied
       /\ calls[i].state = "rejected" /\ calls[i].val = ClosedPrematurely

\* The operations of the host that take the PID of a process first.
PidCalls == {"exit", "reparent", "children", "parent", "send", "name"}

\* C27: not-found.  exit, reparent, children, parent, send and name called
\* with a PID that is not in the table, and start and reparent called with a
\* parent that is given and not in the table, fail with not-found and leave
\* the table, the PID counter, the registry, the waiters and the ports as
\* they were.
C27_NotFound ==
    [][(/\ last'.caller = Undef
        /\ \/ last'.op \in PidCalls /\ last'.a /= Undef /\ last'.a \notin DOMAIN table
           \/ last'.op = "start" /\ last'.a /= Undef /\ last'.a \notin DOMAIN table
           \/ last'.op = "reparent" /\ last'.b /= Undef /\ last'.b \notin DOMAIN table)
        => /\ last'.res = "NotFound"
           /\ table' = table /\ idCounter' = idCounter
           /\ names' = names /\ nameCallbacks' = nameCallbacks
           /\ promises' = promises /\ chans' = chans]_vars

\* A process was to be moved under a process that has exited, a waiter
\* being pending and a frame on its way, and the call has failed.
C27_Witness ==
    /\ HostCall("reparent") /\ last.res = "NotFound"
    /\ last.a \in DOMAIN table /\ last.b \notin DOMAIN table
    /\ last.b <= idCounter
    /\ \E id \in 1..Len(promises) : promises[id] = Undef
    /\ \E ch \in DOMAIN chans : chans[ch].down /= <<>>

\* The parent a start call asks for: the argument of the host's call, the
\* caller itself for the call of a process.
StartParent(call) == IF call.caller = Undef THEN call.a ELSE call.caller

\* C28: start with a live parent, or with none, succeeds and adds exactly
\* one row, with no children and no name, whose parent field is that parent;
\* the new PID is appended to the parent's children and no other row
\* changes; without a parent the new process is among the roots.  A start
\* call made through the API always has the caller as the parent.
C28_StartParented ==
    [][(last'.op = "start" /\ StartParent(last') \in DOMAIN table \cup {Undef})
        => LET par == StartParent(last')
               pid == last'.pid
           IN /\ last'.res = "ok"
              /\ pid \notin DOMAIN table
              /\ DOMAIN table' = DOMAIN table \cup {pid}
              /\ table'[pid] = [parent |-> par, children |-> <<>>, name |-> NoName]
              /\ par /= Undef =>
                    table'[par] = [table[par] EXCEPT !.children = Append(@, pid)]
              /\ \A q \in DOMAIN table \ {par} : table'[q] = table[q]
              /\ par = Undef => pid \in children(table', Undef).set
              /\ last'.caller /= Undef =>
                    /\ table'[pid].parent = last'.caller
                    /\ pid \notin children(table', Undef).set
                    /\ \A q \in DOMAIN table' \ {last'.caller} :
                          ~SetHas(table'[q].children, pid)]_vars

\* A process that has a child already has started a second one, another
\* root being live.
C28_Witness ==
    /\ ApiCall("start") /\ last.res = "ok"
    /\ last.caller \in DOMAIN table
    /\ Len(table[last.caller].children) = 2
    /\ table[last.caller].children[2] = last.pid
    /\ \E q \in DOMAIN table \ {last.caller} : table[q].parent = Undef

\* C22 as stated: whenever the library closes a port it holds, here the
\* sub-channel at the end of a sub-channel call, the frame {channel: "close"}
\* is the last frame it has sent on that port.
C22_CloseSignalled ==
    [][\A ch \in DOMAIN chans :
          (chans[ch].open /\ ~chans'[ch].open)
             => /\ chans'[ch].up /= <<>>
                /\ chans'[ch].up[Len(chans'[ch].up)] = CloseFrame]_vars

\* The sub-channel calls.
AsyncCalls == {i \in 1..Len(calls) : calls[i].mode = "asyncIpc"}

\* C21: concurrent sub-channel calls.  A sub-channel call that has settled
\* was settled by the close frame or by the reply to its own request, which
\* carries what its own handler returned or threw; and no reply to a call is
\* ever on its way on the sub-channel of another call.
C21_OwnReply ==
    /\ \A i \in AsyncCalls :
          calls[i].state /= "waiting" =>
             \/ calls[i].reply = CloseFrame
             \/ /\ calls[i].ret.kind = "return"
                /\ calls[i].reply = ResultFrame(calls[i].ret.val, i)
             \/ /\ calls[i].ret.kind = "throw"
                /\ calls[i].reply = ErrorFrame(calls[i].ret.val, i)
    /\ \A d \in Downs :
          LET f == chans[d[1]].down[d[2]]
          IN (d[1] < 0 /\ f.type \in {"result", "error"})
                => f.cid \in AsyncCalls /\ calls[f.cid].ch = d[1]

\* Two calls were pending with both handlers suspended; the later call has
\* resolved with its own result while the earlier one is still waiting.
C21_Witness ==
    /\ Len(calls) >= 2
    /\ calls[1].mode = "asyncIpc" /\ calls[2].mode = "asyncIpc"
    /\ calls[1].state = "waiting"
    /\ calls[1].ret = Outcome("return", Str("x"), TRUE)
    /\ calls[2].ret = Outcome("return", Undefined, TRUE)
    /\ calls[2].state = "resolved" /\ calls[2].val = Undefined
    /\ calls[2].reply.cid = 2

\* The server takes the next frame of port ch in this step.
Taken(ch) == Len(chans'[ch].up) < Len(chans[ch].up)
\* Frame f is a request for a name that has a handler on port ch.
Registered(ch, f) ==
    f.type = "call" /\ f.call \in makeServer(buildAPI_table(chans[ch].api)).handlers
\* The frames that step has appended to the frames on their way on port ch.
Appended(ch) ==
    SubSeq(Chan(chans', ch).down, Len(Chan(chans, ch).down) + 1, Len(Chan(chans', ch).down))
\* Reply frames are posted for call i only, n of them, all on port ch.
PostsOnly(i, ch, n) ==
    /\ Len(Appended(ch)) = n
    /\ \A k \in 1..n : Appended(ch)[k].type \in {"result", "error"} /\ Appended(ch)[k].cid = i
    /\ \A x \in DOMAIN chans' \ {ch} : Chan(chans', x).down = Chan(chans, x).down
\* Whatever frame the server takes, it posts the one reply a registered
\* request is due and nothing else, on the port the request arrived on.
RepliesOnce ==
    /\ \A i \in 1..Len(calls) :
          /\ calls'[i].posted <= 1
          /\ calls'[i].replied => calls'[i].posted = 1
          /\ calls'[i].posted > calls[i].posted =>
                PostsOnly(i, calls[i].ch, calls'[i].posted - calls[i].posted)
    /\ \A ch \in DOMAIN chans :
          (Taken(ch) /\ Registered(ch, Head(chans[ch].up))) =>
             LET i == Head(chans[ch].up).cid
             IN /\ calls[i].ch = ch
                /\ calls'[i].ret.kind /= "none"
                /\ calls'[i].posted = IF calls'[i].ret.async THEN 0 ELSE 1

ExitRoot(call) == IF call.caller = Undef THEN call.a ELSE call.caller
\* The host's end of the root port of p is closed or its worker terminated,
\* and no handler listens on it.
ShutDown(cs, p) ==
    /\ Chan(cs, p).api = Undef
    /\ Chan(cs, p).closed \/ Chan(cs, p).terminated
    /\ IsWorker(p) => Chan(cs, p).terminated

\* C30: exit is depth-first and shuts down what it removes.  The rows a
\* step removes are removed by an exit call, each once, a descendant before
\* its ancestor and the process the call was run for last, after all its
\* descendants; for each of them disableApi is called exactly once and the
\* port is closed, or terminated when it is a worker; the ports of the
\* processes that stay are left alone; so no process that is gone keeps a
\* server or an open port.
C30_ExitDepthFirst ==
    /\ [][IF last'.op /= "exit"
          THEN chans' = chans /\ DOMAIN table \subseteq DOMAIN table'
          ELSE LET gone == DOMAIN table \ DOMAIN table'
                   log == last'.list
               IN /\ SetOf(log) = gone /\ Len(log) = Cardinality(gone)
                  /\ \A i, j \in 1..Len(log) :
                        log[i] \in Descendants(table, log[j]) => i < j
                  /\ last'.res = "ok" =>
                        /\ log /= <<>> /\ log[Len(log)] = ExitRoot(last')
                        /\ Descendants(table, ExitRoot(last')) \subseteq gone
                  /\ \A q \in gone :
                        /\ Chan(chans, q).disabled = 0 /\ Chan(chans', q).disabled = 1
                        /\ ShutDown(chans', q)
                  /\ \A q \in DOMAIN table' :
                        Chan(chans', q) = Chan(chans, q)]_vars
    /\ [](\A q \in 1..idCounter :
             q \notin DOMAIN table => ShutDown(chans, q) /\ Chan(chans, q).disabled = 1)

\* exit(1) has removed the chain 1, 2, 3 from the leaf up; the port of 1 is
\* closed and the worker 2 is terminated.
C30_Witness ==
    /\ HostCall("exit") /\ last.res = "ok" /\ last.a = 1
    /\ last.list = <<3, 2, 1>>
    /\ chans[1].closed /\ ~chans[1].terminated
    /\ chans[2].terminated /\ chans[2].disabled = 1

\* The root ports whose server has had its cancel closure called.
Cancelled == {p \in 1..idCounter : Chan(chans, p).disabled > 0}
\* The root port of p and the sub-channels made of it, at any depth.
PortsOf(cs, p) == {p} \cup {ch \in DOMAIN cs : ch < 0 /\ cs[ch].peer = p}

\* C23: tear-down.  Once the cancel closure of a server has been called, no
\* handler listens on its root port or on any sub-channel made of it, at
\* whatever depth and whenever it was offered; from then on no request is
\* dispatched to a handler and no port offer installs handlers.
C23_TornDown ==
    /\ [](\A p \in Cancelled : \A ch \in PortsOf(chans, p) : Chan(chans, ch).api = Undef)
    /\ [][\A p \in Cancelled :
             /\ \A i \in 1..Len(calls) : calls[i].proc = p => calls'[i].ret = calls[i].ret
             /\ \A ch \in PortsOf(chans', p) :
                   /\ Chan(chans', ch).api = Undef
                   /\ Chan(chans', ch).over = Chan(chans, ch).over]_vars

\* The server was cancelled while a request was waiting on a sub-channel
\* that had been installed over another sub-channel, and while a port offer
\* was on its way; neither has been taken.
C23_Witness ==
    /\ 1 \in Cancelled
    /\ \E ch \in DOMAIN chans :
          /\ ch < 0 /\ chans[ch].over < 0 /\ chans[ch].api = Undef
          /\ chans[ch].up /= <<>> /\ Head(chans[ch].up).type = "call"
    /\ \E ch \in DOMAIN chans :
          /\ chans[ch].up /= <<>> /\ isMessageTarget(Head(chans[ch].up))
          /\ chans[Head(chans[ch].up).port].over = 0

\* C25: a client that getClient has returned, in either mode, holds for
\* every discovered property a value the server posted on its tracker port,
\* never the unassigned propValue.
Returned(c) == c \in DOMAIN props.clients /\ props.clients[c].stage = "returned"
C25_FirstValueStored ==
    \A c \in DOMAIN props.clients :
        props.clients[c].stage = "returned" =>
            /\ SetOf(props.clients[c].names) = {"X", "Y"}
            /\ \A n \in SetOf(props.clients[c].names) :
                   /\ Tracker(c, n) \in DOMAIN props.ports
                   /\ props.clients[c].cache[n] /= Undefined
                   /\ props.clients[c].cache[n] \in props.ports[Tracker(c, n)].sent
\* A sync and an async client have both been returned, one of them holding
\* a value assigned after it subscribed.
C25_Witness ==
    /\ \E c \in DOMAIN props.clients : Returned(c) /\ props.clients[c].sync
    /\ \E c \in DOMAIN props.clients :
           /\ Returned(c) /\ ~props.clients[c].sync
           /\ \E n \in SetOf(PropNames) : props.clients[c].cache[n] /= Initial

\* C24: a client whose tracker is subscribed comes to hold the value the
\* property has by then, so once the server has assigned v and assigns
\* nothing later every subscribed client holds v; get<Name> returns what
\* was assigned last, from the assignment on.
Subscribed(c, n) ==
    /\ n \in DOMAIN props.server
    /\ SetHas(props.server[n].trackers, Tracker(c, n))
Cached(c, n, v) ==
    /\ c \in DOMAIN props.clients
    /\ n \in DOMAIN props.clients[c].cache
    /\ props.clients[c].cache[n] = v
Assigns(n) ==
    /\ props'.writes = props.writes + 1
    /\ get(props', n) = Assigned(props'.writes)
    /\ \A o \in SetOf(PropNames) \ {n} : get(props', o) = get(props, o)
TakesValue(port) ==
    /\ port \in DOMAIN props.ports
    /\ props.ports[port].up /= <<>>
    /\ HasValue(Head(props.ports[port].up))
    /\ props'.ports[port].up = Tail(props.ports[port].up)
C26_NotSetReply ==
    [][\A port \in DOMAIN props.ports :
           TakesValue(port) =>
               /\ get(props', port[2]) = get(props, port[2])
               /\ \A other \in DOMAIN props.ports \ {port} :
                      props'.ports[other].down = props.ports[other].down
               /\ props'.server[port[2]].trackers = props.server[port[2]].trackers
               /\ SetHas(props'.server[port[2]].trackers, port)
               /\ props'.ports[port].down =
                      Append(props.ports[port].down,
                             ValueErrorFrame("not set", get(props, port[2])))]_vars

\* C37: the PID counter never goes back; a successful start returns the
\* new value of the counter, above the value it had and so above every PID
\* handed out before, and moves the counter by at most table.size + 1; no
\* row has a PID above the counter.
C37_CounterMonotonic ==
    /\ [](\A p \in DOMAIN table : p <= idCounter)
    /\ [][/\ idCounter' >= idCounter
          /\ idCounter' /= idCounter => last'.op = "start"
          /\ (last'.op = "start" /\ last'.res = "ok")
                => /\ last'.pid = idCounter'
                   /\ last'.pid > idCounter
                   /\ idCounter' - idCounter <= Cardinality(DOMAIN table) + 1]_vars
\* The counter has reached its third PID while a row was occupied and an
\* earlier PID had been given up by exit.
C37_Witness ==
    /\ last.op = "start" /\ last.res = "ok"
    /\ last.pid = 3 /\ idCounter = 3
    /\ DOMAIN table = {2, 3}

\* C36: in every state reached through start, exit and the reparent call
\* of the processes, isInSubtree(pid, root) on live PIDs ends, with true
\* when root is pid or an ancestor of pid and with false otherwise; the
\* children and parent calls, which only run the test, are refused exactly
\* when the target is live and not under the caller.
C36_SubtreeTest ==
    /\ [](\A pid \in DOMAIN table, root \in DOMAIN table :
             isInSubtree(table, pid, root) =
                 IF Under(table, pid, root) THEN "true" ELSE "false")
    /\ [][(last'.op \in {"children", "parent"} /\ last'.a \in DOMAIN table)
            => (last'.res = "NotDescendant" <=> ~Under(table, last'.a, last'.caller))]_vars
\* A process has just moved its grandchild: 3 sits under 1 through 2, and
\* the test separates the chain from what is beside and below it.
C36_Witness ==
    /\ ApiCall("reparent") /\ last.res = "ok"
    /\ DOMAIN table = {1, 2, 3}
    /\ table[3].parent = 2 /\ table[2].parent = 1
    /\ isInSubtree(table, 3, 1) = "true"
    /\ isInSubtree(table, 1, 3) = "false"

\* The processes outside the subtree of c.
Outside(t, c) == DOMAIN t \ Subtree(t, c)
\* C38 as stated: a call of process c leaves the parent and the children
\* of every process outside the subtree of c as they were.
C38_OutsideUntouched ==
    [][(last'.caller /= Undef /\ last'.caller \in DOMAIN table)
        => \A q \in Outside(table, last'.caller) :
               /\ q \in DOMAIN table'
               /\ table'[q].parent = table[q].parent
               /\ table'[q].children = table[q].children]_vars
\* C38: a call of process c removes no process outside the subtree of c
\* and leaves its parent as it was; its children change only by PIDs of
\* the subtree of c, which exit unlinks and reparent moves under any live
\* process that is not below the one moved.
C38_OutsideKeepsOwn ==
    [][(table' /= table /\ last'.caller /= Undef /\ last'.caller \in DOMAIN table)
        => LET mine == Subtree(table, last'.caller)
           IN \A q \in Outside(table, last'.caller) :
                  /\ q \in DOMAIN table'
                  /\ table'[q].parent = table[q].parent
                  /\ SetOf(table'[q].children) \ mine = SetOf(table[q].children) \ mine
                  /\ SelectSeq(table'[q].children, LAMBDA x : x \notin mine)
                         = SelectSeq(table[q].children, LAMBDA x : x \notin mine)]_vars
\* Process 2, a root beside the root 1, has handed its own child 3 to
\* process 1: the children of 1, outside the subtree of 2, have grown.
C38_Witness ==
    /\ ApiCall("reparent") /\ last.res = "ok"
    /\ last.caller = 2 /\ last.a = 3 /\ last.b = 1
    /\ 2 \in last.live /\ 3 \in last.live
    /\ DOMAIN table = {1, 2, 3}
    /\ table[3].parent = 1
    /\ table[2].parent = Undef
    /\ table[1].children = <<3>>

\* C40: a start that fails, for whatever reason, leaves the table as it
\* was, so that every parent has its child and every child its parent in
\* every state.
C40_StartAtomic ==
    /\ [][(last'.op = "start" /\ last'.res /= "ok") => table' = table]_vars
    /\ [](\A c \in DOMAIN table :
             table[c].parent /= Undef =>
                /\ table[c].parent \in DOMAIN table
                /\ SetHas(table[table[c].parent].children, c))

\* C35: when the call of a setter resolves, the client that made it reads
\* the value it passed as the property, however the reply and the {value}
\* frame of the tracker port are interleaved.
C35_ReadYourWrite ==
    \A i \in DOMAIN props.rpcs :
        props.rpcs[i].state = "resolved" => props.rpcs[i].seen = props.rpcs[i].val

\* C32: getTransfer() answers the list of the request in the synchronous part
\* of the handler that serves it, and the empty list whenever no handler body
\* is running (every state of the model lies between two tasks of the host).
C32_TransferScoped ==
    /\ getTransfer(transfer) = <<>>
    /\ \A i \in 1..Len(calls) :
           calls[i].ret.kind /= "none" => calls[i].got = calls[i].list

\* The sub-channels, at whatever depth, made of the port of a process whose
\* server was made with sync = true (or false).
SubChannels(sync) ==
    {ch \in DOMAIN chans : ch < 0 /\ SyncServed(chans[ch].peer) = sync}

\* C31: with sync = false every port offered on the root port or on a
\* sub-channel at any depth gets the handlers of the server installed, and a
\* request for a registered call that is taken on such a port is answered on
\* it; with sync = true a port offer installs nothing and a request made on
\* the offered port is never taken or answered.
C31_SubChannelModes ==
    /\ [][\A ch \in DOMAIN chans :
             (Taken(ch) /\ ~SyncServed(chans[ch].peer)) =>
                LET f == Head(chans[ch].up)
                IN /\ isMessageTarget(f) =>
                         /\ chans[ch].api /= Undef
                         /\ chans'[f.port].api = chans[ch].api
                   /\ Registered(ch, f) =>
                         /\ Appended(ch) = <<ResultFrame(Undefined, f.cid)>>
                         /\ calls[f.cid].ch = ch]_vars
    /\ [](\A ch \in SubChannels(TRUE) :
             /\ chans[ch].api = Undef
             /\ chans[ch].down = <<>>
             /\ \A i \in 1..Len(calls) :
                   calls[i].ch = ch =>
                      /\ calls[i].state = "waiting" /\ calls[i].ret.kind = "none"
                      /\ chans[ch].up /= <<>> /\ Head(chans[ch].up).cid = i)

\* Process 1 has had a request answered on a sub-channel it had offered on
\* another sub-channel; process 2 has made a sub-channel call whose port
\* offer the sync server has taken, and its request still waits on a port
\* without handlers.
C31_Witness ==
    /\ \E i \in 1..Len(calls) :
          /\ calls[i].proc = 1 /\ calls[i].state = "resolved"
          /\ chans[calls[i].ch].over < 0 /\ chans[calls[i].ch].api = 1
    /\ \E i \in 1..Len(calls) :
          /\ calls[i].proc = 2 /\ calls[i].state = "waiting"
          /\ chans[2].up = <<>>
          /\ chans[calls[i].ch].api = Undef

\* The server takes the track call of port in this step.
Subscribes(port) ==
    /\ props.requests /= <<>> /\ Head(props.requests) = port
    /\ props'.requests = Tail(props.requests)
\* The server assigns property n in this step.
Sets(n) ==
    /\ props'.writes = props.writes + 1
    /\ props'.server[n].value = Assigned(props'.writes)
\* The frames this step posts on a tracker port.
NewFrames(port) ==
    LET old == IF port \in DOMAIN props.ports THEN props.ports[port].down ELSE <<>>
        new == props'.ports[port].down
    IN IF Len(new) > Len(old) THEN SubSeq(new, Len(old) + 1, Len(new)) ELSE <<>>

\* C33: a tracker port is posted {value: v} with the value current at its
\* subscription, as its first frame, and then exactly one {value: v} for every
\* later assignment of its property, as they happen, and nothing else; one
\* assignment posts on the trackers in the order they subscribed.
C33_FrameSequence ==
    [][\A port \in DOMAIN props'.ports :
          LET n == port[2]
              tracked == props.server[n].trackers
          IN /\ NewFrames(port) =
                   IF Subscribes(port) THEN <<ValueFrame(props.server[n].value)>>
                   ELSE IF Sets(n) /\ SetHas(tracked, port)
                        THEN <<ValueFrame(props'.server[n].value)>>
                        ELSE <<>>
             /\ Subscribes(port) =>
                   /\ props.ports[port].sent = {} /\ ~SetHas(tracked, port)
                   /\ props'.server[n].trackers = Append(tracked, port)
             /\ ~Subscribes(port) =>
                   SetHas(props'.server[n].trackers, port) = SetHas(tracked, port)
             /\ Sets(n) => props'.order = tracked]_vars

\* X was assigned twice: the tracker that subscribed first was posted the
\* initial value and both assignments, the one that subscribed between the
\* assignments was posted the first assigned value and then the second, and
\* the second assignment posted on them in that order.
C33_Witness ==
    \E c, d \in Subscribers :
       /\ c /= d
       /\ Tracker(c, "X") \in DOMAIN props.ports
       /\ Tracker(d, "X") \in DOMAIN props.ports
       /\ props.ports[Tracker(c, "X")].sent = {Initial, Assigned(1), Assigned(2)}
       /\ props.ports[Tracker(d, "X")].sent = {Assigned(1), Assigned(2)}
       /\ props.order = <<Tracker(c, "X"), Tracker(d, "X")>>

\* The server takes the {channel: "close"} frame a subscribed tracker port
\* carries in this step.
TakesClose(port) ==
    /\ SetHas(props.server[port[2]].trackers, port)
    /\ props.ports[port].up /= <<>>
    /\ Head(props.ports[port].up).type = "close"
    /\ props'.ports[port].up = Tail(props.ports[port].up)

\* C34: when the server takes {channel: "close"} on a subscribed tracker
\* port, the port leaves the tracker set of its property and every other
\* tracker stays; no later assignment posts on a port that has left.
C34_Unsubscribes ==
    [][\A port \in DOMAIN props.ports :
          LET n == port[2]
          IN /\ TakesClose(port) =>
                   /\ ~SetHas(props'.server[n].trackers, port)
                   /\ \A other \in SetOf(props.server[n].trackers) \ {port} :
                          SetHas(props'.server[n].trackers, other)
             /\ (Sets(n) /\ ~SetHas(props.server[n].trackers, port)) =>
                   NewFrames(port) = <<>>]_vars

\* The processes that were started and have been exited.
Exited == {p \in 1..idCounter : p \notin DOMAIN table}

\* C39: once exit(p) has returned no frame of the host lands on the port of
\* p or on a sub-channel made of it, and no handler is run for a request of
\* p, whatever call of p completes later.
C39_SilentAfterExit ==
    [][\A p \in Exited :
          /\ \A ch \in PortsOf(chans', p) :
                Len(Chan(chans', ch).down) <= Len(Chan(chans, ch).down)
          /\ \A i \in 1..Len(calls) :
                calls[i].proc = p => calls'[i].ret = calls[i].ret]_vars

====
